---- MODULE Spec2Model ----
(***************************************************************************)
(* CDC WONDER dataset registry: the discovery pass of scanner.py           *)
(* (probe_d_id / map_d_range and the URL helpers they use) and the         *)
(* classification pass of src/wonder/catalog.py (classify_dataset /        *)
(* catalog_datasets).                                                      *)
(*                                                                         *)
(* Program strings are TLA+ strings handled character by character with    *)
(* Len, SubSeq and \o, so that substring tests, lower-casing, URL parsing  *)
(* and ordering are computed, not assumed.                                 *)
(***************************************************************************)
EXTENDS Integers, Sequences, FiniteSets, TLC

(***************************************************************************)
(* Bounds of the model.                                                    *)
(***************************************************************************)
\* largest identifier number a discovery run may reach (range is start..end)
MaxEnd == 2
\* largest number of rows in the dataset-map file read by a classification pass
MaxRows == 2

(***************************************************************************)
(* Python str primitives.                                                  *)
(***************************************************************************)
\* the printable ASCII characters in code-point order, starting at chr(32); the
\* place of chr(96) is held by a tab, a character no modelled string contains
Ascii == " !\"#$%&'()*+,-./0123456789:;<=>?@ABCDEFGHIJKLMNOPQRSTUVWXYZ[\\]^_\tabcdefghijklmnopqrstuvwxyz{|}~"

\* s[i-1:i]: the character at the 1-based position i, "" outside the string
CharAt(s, i) == IF i >= 1 /\ i <= Len(s) THEN SubSeq(s, i, i) ELSE ""

\* s[i-1:j]: the slice from the 1-based position i through j, clipped to the string
Slice(s, i, j) ==
  LET lo == IF i < 1 THEN 1 ELSE i
      hi == IF j > Len(s) THEN Len(s) ELSE j
  IN  IF lo > hi THEN "" ELSE SubSeq(s, lo, hi)

\* the least element of a set of positions, or none when the set is empty
MinOr(S, none) == IF S = {} THEN none ELSE CHOOSE i \in S : \A j \in S : i <= j

\* the greatest element of a set of positions, or none when the set is empty
MaxOr(S, none) == IF S = {} THEN none ELSE CHOOSE i \in S : \A j \in S : i >= j

\* the code point of every printable ASCII character
CodePoint ==
  [c \in {SubSeq(Ascii, i, i) : i \in 1..95} |->
     31 + (CHOOSE i \in 1..95 : SubSeq(Ascii, i, i) = c)]

\* ord(c) of a printable ASCII character
Ord(c) == CodePoint[c]

\* chr(n) for a printable ASCII code point
Chr(n) == CharAt(Ascii, n - 31)

\* lo <= k <= hi
Between(k, lo, hi) == lo <= k /\ k <= hi

\* c.lower() of one character
LowerChar(c) == IF Between(Ord(c), 65, 90) THEN Chr(Ord(c) + 32) ELSE c

\* s.lower()
Lower(s) ==
  LET F[i \in 0..Len(s)] == IF i = 0 THEN "" ELSE F[i - 1] \o LowerChar(CharAt(s, i))
  IN  F[Len(s)]

\* c.isdigit() / the regex class \d on ASCII
IsDigit(c) == Between(Ord(c), 48, 57)

\* s.startswith(p)
StartsWith(s, p) == Len(p) <= Len(s) /\ SubSeq(s, 1, Len(p)) = p

\* s.endswith(p)
EndsWith(s, p) == Len(p) <= Len(s) /\ SubSeq(s, Len(s) - Len(p) + 1, Len(s)) = p

\* s.find(p) shifted to 1-based positions; 0 when p does not occur
Find(s, p) == MinOr({i \in 1..(Len(s) - Len(p) + 1) : SubSeq(s, i, i + Len(p) - 1) = p}, 0)

\* p in s
Contains(s, p) == Find(s, p) # 0

\* s.rfind(p), 1-based; 0 when p does not occur
RFind(s, p) == MaxOr({i \in 1..(Len(s) - Len(p) + 1) : SubSeq(s, i, i + Len(p) - 1) = p}, 0)

\* s[i:] for a 1-based start
From(s, i) == SubSeq(s, i, Len(s))

RECURSIVE Strip(_, _)
\* s.strip(chars)
Strip(s, chars) ==
  IF s = "" THEN ""
  ELSE IF Contains(chars, CharAt(s, 1)) THEN Strip(Tail(s), chars)
  ELSE IF Contains(chars, CharAt(s, Len(s))) THEN Strip(SubSeq(s, 1, Len(s) - 1), chars)
  ELSE s

RECURSIVE StrLess(_, _)
\* a < b on Python strings: lexicographic by code point
StrLess(a, b) ==
  IF b = "" THEN FALSE
  ELSE IF a = "" THEN TRUE
  ELSE IF CharAt(a, 1) = CharAt(b, 1) THEN StrLess(Tail(a), Tail(b))
  ELSE Ord(CharAt(a, 1)) < Ord(CharAt(b, 1))

RECURSIVE StrOfNat(_)
\* str(n) of a non-negative int
StrOfNat(n) == IF n < 10 THEN Chr(48 + n) ELSE StrOfNat(n \div 10) \o Chr(48 + (n % 10))

RECURSIVE IntOfStr(_)
\* int(s) of a string of decimal digits
IntOfStr(s) ==
  IF s = "" THEN 0 ELSE 10 * IntOfStr(SubSeq(s, 1, Len(s) - 1)) + (Ord(CharAt(s, Len(s))) - 48)

\* the elements of a list, as a set
Range(seq) == {seq[i] : i \in 1..Len(seq)}

RECURSIVE SelectSeqDedup(_, _, _)
\* the loop "for u in xs: if keep(u) and u not in seen: seen.add(u); out.append(u)"
SelectSeqDedup(xs, keep(_), seen) ==
  IF xs = <<>> THEN <<>>
  ELSE IF keep(Head(xs)) /\ Head(xs) \notin seen
       THEN <<Head(xs)>> \o SelectSeqDedup(Tail(xs), keep, seen \cup {Head(xs)})
       ELSE SelectSeqDedup(Tail(xs), keep, seen)

(***************************************************************************)
(* urllib.parse as scanner.py uses it.  Modelled inputs have no "." or     *)
(* ".." path segments and no empty interior segments.                      *)
(***************************************************************************)
\* urllib's scheme_chars
SchemeChars == "abcdefghijklmnopqrstuvwxyzABCDEFGHIJKLMNOPQRSTUVWXYZ0123456789+-."

\* the first position >= from of any character of delims in s; Len(s)+1 if none
FirstOf(s, delims, from) ==
  MinOr({i \in from..Len(s) : Contains(delims, CharAt(s, i))}, Len(s) + 1)

\* s cut at position k, leaving the character at k out; <<s, "">> when k = 0
CutAt(s, k) == IF k = 0 THEN <<s, "">> ELSE <<SubSeq(s, 1, k - 1), From(s, k + 1)>>

\* s.partition(delim) without the separator: <<head, tail>>
Partition(s, delim) == CutAt(s, Find(s, delim))

\* the scheme step of urlsplit for the position of the first ":" (0 when
\* there is none): <<scheme, rest>>
scheme_at(url, colon) ==
  IF /\ colon > 1
     /\ Between(Ord(LowerChar(CharAt(url, 1))), 97, 122)
     /\ \A i \in 1..(colon - 1) : Contains(SchemeChars, CharAt(url, i))
  THEN <<Lower(SubSeq(url, 1, colon - 1)), From(url, colon + 1)>>
  ELSE <<"", url>>

split_scheme(url) == scheme_at(url, Find(url, ":"))

\* the netloc step of urlsplit: <<netloc, rest>>
netloc_to(rest, netEnd) == <<SubSeq(rest, 3, netEnd - 1), From(rest, netEnd)>>

split_netloc(rest) ==
  IF StartsWith(rest, "//") THEN netloc_to(rest, FirstOf(rest, "/?#", 3)) ELSE <<"", rest>>

\* the position in p of the first ";" after position lastSl, 0 when none
semi_after(p, lastSl, k) == IF k = 0 THEN 0 ELSE lastSl + k

first_semi(p, lastSl) == semi_after(p, lastSl, Find(From(p, lastSl + 1), ";"))

\* the params step of urlparse: <<path, params>>, split at the first ";" of
\* the last path segment
split_params(p) == CutAt(p, first_semi(p, RFind(p, "/")))

\* the six parts; pp is <<path, params>>
url_parts(scheme, netloc, pp, query, fragment) ==
  [scheme |-> scheme, netloc |-> netloc, path |-> pp[1],
   params |-> pp[2], query |-> query, fragment |-> fragment]

\* the query step: pq is the rest before "#" partitioned at "?"
parse_query(scheme, netloc, pq, fragment) ==
  url_parts(scheme, netloc, split_params(pq[1]), pq[2], fragment)

\* the fragment step: pf is the rest after the netloc partitioned at "#"
parse_fragment(scheme, netloc, pf) ==
  parse_query(scheme, netloc, Partition(pf[1], "?"), pf[2])

\* the netloc step: nr is <<netloc, rest>>
parse_netloc(scheme, nr) == parse_fragment(scheme, nr[1], Partition(nr[2], "#"))

\* the scheme step: sr is <<scheme, rest>>
parse_scheme(sr) == parse_netloc(sr[1], split_netloc(sr[2]))

\* urlparse(url): scheme, netloc, path, params, query, fragment
urlparse(url) == parse_scheme(split_scheme(url))

\* the steps of urlunparse, innermost first
join_params(path, params) == IF params = "" THEN path ELSE path \o ";" \o params

join_netloc(netloc, p) ==
  IF netloc # ""
  THEN "//" \o netloc \o (IF p # "" /\ ~StartsWith(p, "/") THEN "/" \o p ELSE p)
  ELSE p

join_scheme(scheme, p) == IF scheme # "" THEN scheme \o ":" \o p ELSE p

join_query(p, query) == IF query # "" THEN p \o "?" \o query ELSE p

join_fragment(p, fragment) == IF fragment # "" THEN p \o "#" \o fragment ELSE p

\* urlunparse(parts)
urlunparse(u) ==
  join_fragment(
    join_query(
      join_scheme(u.scheme, join_netloc(u.netloc, join_params(u.path, u.params))),
      u.query),
    u.fragment)

\* the path of the joined URL: an absolute path of r, or the path of r put
\* after the directory of the base path
merge_path(bpath, rpath) ==
  IF StartsWith(rpath, "/") THEN rpath ELSE SubSeq(bpath, 1, RFind(bpath, "/")) \o rpath

\* "/" for an empty path
root_if_empty(path) == IF path = "" THEN "/" ELSE path

\* the parts of the joined URL when url and base share a scheme
joined_parts(b, r) ==
  IF r.netloc # "" THEN r
  ELSE IF r.path = "" /\ r.params = ""
       THEN [r EXCEPT !.netloc = b.netloc, !.path = b.path, !.params = b.params,
                      !.query = IF r.query = "" THEN b.query ELSE r.query]
       ELSE [r EXCEPT !.netloc = b.netloc, !.path = root_if_empty(merge_path(b.path, r.path))]

\* urljoin on parsed parts: b is the parsed base, r the parsed url with the
\* scheme of the base filled in where it had none
join_parts(url, b, r) ==
  IF r.scheme # b.scheme \/ r.scheme \notin {"http", "https"} THEN url
  ELSE urlunparse(joined_parts(b, r))

\* the parsed url with the scheme defaulting to that of the base
with_scheme(r0, scheme) == IF r0.scheme = "" THEN [r0 EXCEPT !.scheme = scheme] ELSE r0

\* urljoin on the parsed base b and the parsed url r0
join_base(url, b, r0) == join_parts(url, b, with_scheme(r0, b.scheme))

\* urljoin(base, url) for http(s) URLs
urljoin(base, url) ==
  IF base = "" THEN url
  ELSE IF url = "" THEN base
  ELSE join_base(url, urlparse(base), urlparse(url))

(***************************************************************************)
(* scanner.py: constants and pure helpers.                                 *)
(***************************************************************************)
BASE == "https://wonder.cdc.gov"

CTRL == BASE \o "/controller/datarequest"

\* the canonical-page predicate
is_wonder_parts_any_host(u) ==
  IF ~(u.scheme # "" /\ u.netloc # "") THEN FALSE
  ELSE EndsWith(Lower(u.path), ".html")

is_wonder_parts(u) ==
  IF ~(u.scheme # "" /\ u.netloc # "") THEN FALSE
  ELSE Lower(u.netloc) = Lower(urlparse(BASE).netloc) /\ EndsWith(Lower(u.path), ".html")

is_wonder_html(url) == is_wonder_parts(urlparse(url))

RECURSIVE findall_d4(_)
\* re.findall(r'\d{4}', text): leftmost non-overlapping runs of four digits
findall_d4(text) ==
  IF Len(text) < 4 THEN <<>>
  ELSE IF \A i \in 1..4 : IsDigit(CharAt(text, i))
       THEN <<SubSeq(text, 1, 4)>> \o findall_d4(From(text, 5))
       ELSE findall_d4(Tail(text))

\* the calendar window of extract_years
YearMin == 1900
YearMax == 2500

extract_years(text) ==
  IF text = "" THEN ""
  ELSE
    LET years == findall_d4(text)
        valid == {years[i] : i \in {j \in 1..Len(years) :
                     YearMin <= IntOfStr(years[j]) /\ IntOfStr(years[j]) <= YearMax}}
        first == CHOOSE y \in valid : \A z \in valid : y = z \/ StrLess(y, z)
        last  == CHOOSE y \in valid : \A z \in valid : y = z \/ StrLess(z, y)
    IN  IF valid = {} THEN ""
        ELSE IF Cardinality(valid) = 1 THEN first
        ELSE first \o "-" \o last

\* s.rstrip(chars)
RStrip(s, chars) == SubSeq(s, 1, MaxOr({i \in 1..Len(s) : ~Contains(chars, CharAt(s, i))}, 0))

\* the first position >= from of s that holds no blank
SkipBlanks(s, from) == MinOr({i \in from..Len(s) : CharAt(s, i) # " "}, Len(s) + 1)

\* re.search(r'url\s*=\s*([^;]+)', content, re.I) followed by
\* m.group(1).strip().strip('\'"'); <<>> when the search fails
\* the group ([^;]+) is not empty when "=" stands at position eq
capture_at(content, eq) ==
  CharAt(content, eq) = "=" /\ FirstOf(content, ";", eq + 1) > eq + 1

\* url\s*=\s*([^;]+) matches at position i
url_eq_at(content, i) ==
  Lower(SubSeq(content, i, i + 2)) = "url" /\ capture_at(content, SkipBlanks(content, i + 3))

\* m.group(1).strip().strip('\'"') for "=" at position eq
capture_from(content, eq) ==
  Strip(Strip(SubSeq(content, eq + 1, FirstOf(content, ";", eq + 1) - 1), " "), "'\"")

\* the target of the match that starts at position m; <<>> when m = 0
target_at(content, m) ==
  IF m = 0 THEN <<>> ELSE <<capture_from(content, SkipBlanks(content, m + 3))>>

meta_refresh_target(content) ==
  target_at(content, MinOr({i \in 1..(Len(content) - 2) : url_eq_at(content, i)}, 0))

\* the navigation call shapes of js_patterns, in list order
js_patterns == <<"window.location", "document.location", "location.href", "location.replace">>

\* the concatenation of f(x) over the list xs
FlatMap(xs, f(_)) ==
  LET F[i \in 0..Len(xs)] == IF i = 0 THEN <<>> ELSE F[i - 1] \o f(xs[i])
  IN  F[Len(xs)]

\* html_redirect_candidates(html, base_url).  The parsed document is the list
\* of meta-refresh content attributes, the list of script navigation
\* assignments (call shape, quoted target) and the list of anchor hrefs, each
\* in document order.
\* the target a meta refresh tag with this content attribute names, if any
meta_targets(t) == IF t = <<>> THEN <<>> ELSE <<t[1]>>

\* the targets of the script assignments of the call shape pat
js_targets(scripts, pat) ==
  FlatMap(SelectSeq(scripts, LAMBDA a : a.shape = pat), LAMBDA a : <<Strip(a.target, " ")>>)

\* the stripped href of an anchor unless it is empty, a javascript: link or a
\* fragment
href_targets(href, lower) ==
  IF href # "" /\ ~StartsWith(lower, "javascript:") /\ ~StartsWith(lower, "#")
  THEN <<href>> ELSE <<>>

anchor_targets(href) == href_targets(href, Lower(href))

\* what the three mining passes find, before urljoin: meta refresh, script
\* navigation per call shape, anchors
mined_targets(html) ==
  FlatMap(html.metas, LAMBDA c : meta_targets(meta_refresh_target(c)))
  \o FlatMap(js_patterns, LAMBDA pat : js_targets(html.scripts, pat))
  \o FlatMap(html.anchors, LAMBDA h : anchor_targets(Strip(h, " ")))

keep_wonder_html_keeps_repeats(xs) == SelectSeq(xs, is_wonder_html)

\* the loop "for u in xs: if is_wonder_html(u) and u not in seen: ..." that
\* ends html_redirect_candidates and filters the candidates of probe_d_id
keep_wonder_html(xs) == SelectSeqDedup(xs, is_wonder_html, {})

html_redirect_candidates(html, base_url) ==
  keep_wonder_html(FlatMap(mined_targets(html), LAMBDA t : <<urljoin(base_url, t)>>))

\* the block-list of pick_best_html
ignore_patterns == <<"faq.html", "main.html">>

\* the dataset-family keywords of pick_best_html
priority_words == <<"sql", "icd10", "natality", "mort", "bridged", "birth", "ucd", "cmf", "mcd">>

\* the sort key (-score, len(path), u) of one candidate
path_key(path, u) ==
  [score |-> Cardinality({i \in 1..Len(priority_words) : Contains(path, priority_words[i])}),
   len |-> Len(path), u |-> u]

score_key(u) == path_key(Lower(urlparse(u).path), u)

\* key a sorts before key b under key=(-score, len, u)
key_less_reverse_ties(a, b) ==
  \/ a.score > b.score
  \/ a.score = b.score /\ a.len < b.len
  \/ a.score = b.score /\ a.len = b.len /\ StrLess(b.u, a.u)

key_less(a, b) ==
  \/ a.score > b.score
  \/ a.score = b.score /\ a.len < b.len
  \/ a.score = b.score /\ a.len = b.len /\ StrLess(a.u, b.u)

\* an Optional value is a list of at most one element: None is the empty list
None == <<>>

Some(v) == <<v>>

\* "fallback or ''"
or_empty(fallback) == IF fallback = None THEN "" ELSE fallback[1]

not_ignored_allows_all(u) == TRUE

\* not any(p in u.lower() for p in ignore_patterns)
not_ignored(u) == ~\E i \in 1..Len(ignore_patterns) : Contains(Lower(u), ignore_patterns[i])

\* the first key of sorted(keys)
first_key(keys) == CHOOSE k \in keys : \A o \in keys : o = k \/ key_less(k, o)

pick_filtered_ignores_fallback(filtered, fallback) ==
  IF filtered = <<>> THEN ""
  ELSE first_key({score_key(filtered[i]) : i \in 1..Len(filtered)}).u

\* the selection among the candidates the block-list left
pick_filtered(filtered, fallback) ==
  IF filtered = <<>> THEN or_empty(fallback)
  ELSE first_key({score_key(filtered[i]) : i \in 1..Len(filtered)}).u

pick_best_html(candidates, fallback) ==
  IF candidates = <<>> THEN or_empty(fallback)
  ELSE pick_filtered(SelectSeq(candidates, not_ignored), fallback)

\* the controller URL of identifier D<dnum>
ctrl_url(dnum) == BASE \o "/controller/datarequest/" \o "D" \o StrOfNat(dnum)

\* the Location header of a response resolved against its own URL, if present
location_target(h) == IF h.Location # "" THEN <<urljoin(h.url, h.Location)>> ELSE <<>>

\* the final URL itself when it is a static page
self_target(url) == IF is_wonder_html(url) THEN <<url>> ELSE <<>>

\* the candidates mined from the body when it is HTML
body_targets(r) ==
  IF Contains(r.content_type, "text/html") /\ r.text # None
  THEN html_redirect_candidates(r.text[1], r.url) ELSE <<>>

\* the candidate list probe_d_id hands to the selector
probe_candidates(r) ==
  keep_wonder_html(FlatMap(r.history, location_target) \o location_target(r)
                     \o self_target(r.url) \o body_targets(r))

\* discovery_kind with the status test of the no-page branch lost
discovery_kind_ignores_status(chosen, ctrl, status_code) ==
  IF chosen # ""
  THEN IF RStrip(chosen, "/") # RStrip(ctrl, "/") THEN "redirect" ELSE "direct"
  ELSE "direct"

\* discovery_kind with the comparison against the controller URL inverted
discovery_kind_inverted(chosen, ctrl, status_code) ==
  IF chosen # ""
  THEN IF RStrip(chosen, "/") = RStrip(ctrl, "/") THEN "redirect" ELSE "direct"
  ELSE IF status_code = 200 THEN "direct" ELSE "http_" \o StrOfNat(status_code)

\* discovery_kind that looks at the status alone
discovery_kind_by_status(chosen, ctrl, status_code) ==
  IF status_code = 200 THEN "direct"
  ELSE IF chosen # "" THEN "redirect"
  ELSE "http_" \o StrOfNat(status_code)

\* row["discovery"] of a probe that got a response: chosen is the selected
\* page or "" when none was found
discovery_kind(chosen, ctrl, status_code) ==
  IF chosen # ""
  THEN IF RStrip(chosen, "/") # RStrip(ctrl, "/") THEN "redirect" ELSE "direct"
  ELSE IF status_code = 200 THEN "direct" ELSE "http_" \o StrOfNat(status_code)

page_name_of_whole_path(path) == path

\* the last segment of the path of a URL: urlparse(chosen).path.rsplit("/", 1)[-1]
page_name_of(path) == From(path, RFind(path, "/") + 1)

\* the row of a probe that got the response r and selected chosen
response_row(row0, ctrl, r, chosen, page) ==
  IF chosen # ""
  THEN [row0 EXCEPT !.http_status = StrOfNat(r.status_code),
                    !.final_url = chosen,
                    !.page_name = page,
                    !.discovery = discovery_kind(chosen, ctrl, r.status_code),
                    !.years = extract_years(page)]
  ELSE [row0 EXCEPT !.http_status = StrOfNat(r.status_code),
                    !.discovery = discovery_kind(chosen, ctrl, r.status_code)]

\* the page pick_best_html selects for the response r
chosen_of(r) ==
  pick_best_html(probe_candidates(r), IF is_wonder_html(r.url) THEN Some(r.url) ELSE None)

\* the row before the request: id and controller_url set, the rest empty
empty_row(sid, ctrl) ==
  [id |-> sid, controller_url |-> ctrl, http_status |-> "", discovery |-> "",
   final_url |-> "", page_name |-> "", years |-> "", error |-> ""]

\* fill_row whose except clause sets the discovery kind only
fill_row_error_without_status(row0, outcome, chosen) ==
  IF outcome.kind = "exception"
  THEN [row0 EXCEPT !.discovery = "error", !.error = outcome.msg]
  ELSE response_row(row0, row0.controller_url, outcome.r, chosen,
                    page_name_of(urlparse(chosen).path))

\* the row probe_d_id fills in from the outcome of s.get
fill_row(row0, outcome, chosen) ==
  IF outcome.kind = "exception"
  THEN [row0 EXCEPT !.http_status = "error", !.discovery = "error", !.error = outcome.msg]
  ELSE response_row(row0, row0.controller_url, outcome.r, chosen,
                    page_name_of(urlparse(chosen).path))

\* the row probe_d_id returns for the outcome of s.get: a response or a
\* requests.RequestException
probe_d_id(dnum, outcome) ==
  fill_row(empty_row("D" \o StrOfNat(dnum), ctrl_url(dnum)), outcome,
           IF outcome.kind = "exception" THEN "" ELSE chosen_of(outcome.r))

(***************************************************************************)
(* The outcomes of s.get(ctrl, timeout=15, allow_redirects=True) that the  *)
(* discovery run is explored under.                                        *)
(***************************************************************************)
NoLinks == [metas |-> <<>>, scripts |-> <<>>, anchors |-> <<>>]

Response(status, history, location, url, ctype, text) ==
  [kind |-> "response",
   r |-> [status_code |-> status, history |-> history, Location |-> location,
          url |-> url, content_type |-> ctype, text |-> text]]

Outcomes(ctrl) ==
  { \* one redirect hop to a static page whose body links to other pages
    Response(200, <<[url |-> ctrl, Location |-> "/ucd-icd10.html"]>>, "",
             BASE \o "/ucd-icd10.html", "text/html; charset=UTF-8",
             Some([NoLinks EXCEPT !.anchors = <<"/faq.html", "main.html", "#top",
                 "https://www.cdc.gov/nchs/index.html", " /mcd-icd10.html ">>])),
    \* no redirect, the body links only to a block-listed page
    Response(200, <<>>, "", ctrl, "text/html",
             Some([NoLinks EXCEPT !.anchors = <<"/faq.html">>])),
    \* not found, empty body
    Response(404, <<>>, "", ctrl, "text/html", None),
    \* server error whose HTML body still names static pages
    Response(500, <<>>, "", ctrl, "text/html",
             Some([NoLinks EXCEPT !.metas = <<"0; URL='/natality-current.html'">>,
                                  !.scripts = <<[shape |-> "location.href",
                                                 target |-> "/cmf-icd9-1979-1998.html"]>>])),
    \* two hops to a page with a year range in its name
    Response(200, <<[url |-> ctrl, Location |-> "/controller/datarequest/D16"],
                    [url |-> BASE \o "/controller/datarequest/D16",
                     Location |-> "/cmf-icd9-1979-1998.html"]>>, "",
             BASE \o "/cmf-icd9-1979-1998.html", "text/html", None),
    \* redirect to a block-listed page and nothing else
    Response(200, <<[url |-> ctrl, Location |-> "/faq.html"]>>, "",
             BASE \o "/faq.html", "text/html", None),
    \* a redirect status that was not followed, with a Location header
    Response(302, <<>>, "/bridged-race-v2020.html", ctrl, "", None),
    \* service unavailable, a non-HTML body
    Response(503, <<>>, "", ctrl, "application/json",
             Some([NoLinks EXCEPT !.anchors = <<"/ucd-icd10.html">>])),
    \* requests.RequestException
    [kind |-> "exception", msg |-> "Read timed out."]
  }

(***************************************************************************)
(* State.                                                                  *)
(***************************************************************************)
VARIABLES
  \* map_d_range: the discovery run
  pc,         \* position of the run: request, sleep, append, open, header, rows, close, done, killed
  start,      \* first identifier number of the range
  end,        \* last identifier number of the range
  n,          \* loop variable of map_d_range
  row,        \* the row probe_d_id is about to return
  rows,       \* the in-memory result list
  store,      \* the dataset-map file out_csv
  wi,         \* index of the next row the writer loop writes
  requests,   \* the controller URLs requested so far, in order
  outcomes,   \* what each of those requests met, in order
  sleeps,     \* number of polite pauses completed
  \* catalog.main: the classification pass
  cpc,        \* position of the pass: load, classify, classified, written, reported, failed
  dataset_map,\* the rows of dataset_map.csv
  topics,     \* the taxonomy of health-data-topics.json
  datasets,   \* the rows load_dataset_map kept
  topic_to_category, \* the map build_topic_to_category_map built
  di,         \* index of the next dataset the loop of catalog_datasets classifies
  mappings,   \* list of DatasetMapping
  unmapped,   \* list of UnmappedDataset
  fault,      \* what is wrong with the input files of the run, "none" when nothing is
  out_file,   \* topics_mapping.json: None while it does not exist, else the record in it
  prev_run,   \* None in the first run, else what the last completed run returned and wrote
  runs,       \* number of runs of main started so far
  report,     \* None until print_datasets_by_topic has printed, else what it printed
  \* calls of the pure helpers of scanner.py on their own
  ppc,          \* which helper is called: idle, select, years
  sel_urls,     \* a list of URLs: the candidates of a probe
  sel_fallback, \* the fallback handed to pick_best_html
  sel_filtered, \* what the canonical-page filter returned, once called
  sel_chosen,   \* what pick_best_html returned, once called
  yr_text,      \* the text handed to extract_years
  yr_result,    \* what extract_years returned, once called
  \* crawl.py: crawl(seeds, max_pages)
  kpc,          \* position of the call: idle, loop (at the while test), done
  seeds,        \* the seeds argument
  max_pages,    \* the max_pages argument
  queue,        \* the deque of URLs to visit
  seen_pages,   \* the set of URLs fetched so far
  results,      \* the values of the results dict, in insertion order
  enqueued,     \* every URL put on the queue so far, in order, seeds first
  taken,        \* every URL popleft has returned so far, in order
  fetched       \* every URL handed to fetch so far, in order

svars == <<pc, start, end, n, row, rows, store, wi, requests, outcomes, sleeps>>

cvars == <<cpc, dataset_map, topics, datasets, topic_to_category, di, mappings, unmapped,
           fault, out_file, prev_run, runs, report>>

pvars == <<ppc, sel_urls, sel_fallback, sel_filtered, sel_chosen, yr_text, yr_result>>

kvars == <<kpc, seeds, max_pages, queue, seen_pages, results, enqueued, taken, fetched>>

vars == <<svars, cvars, pvars, kvars>>

\* no pure helper is being called on its own
PureIdle ==
  /\ ppc = "idle"
  /\ sel_urls = <<>>
  /\ sel_fallback = <<>>
  /\ sel_filtered = <<>>
  /\ sel_chosen = <<>>
  /\ yr_text = ""
  /\ yr_result = <<>>

\* the classification pass is not running
CatalogIdle ==
  /\ cpc = "idle"
  /\ dataset_map = <<>>
  /\ topics = [health |-> <<>>]
  /\ datasets = <<>>
  /\ topic_to_category = <<>>
  /\ di = 1
  /\ mappings = <<>>
  /\ unmapped = <<>>
  /\ fault = "none"
  /\ out_file = <<>>
  /\ prev_run = <<>>
  /\ runs = 0
  /\ report = <<>>

\* the link harvester is not running
CrawlIdle ==
  /\ kpc = "idle"
  /\ seeds = <<>>
  /\ max_pages = 0
  /\ queue = <<>>
  /\ seen_pages = {}
  /\ results = <<>>
  /\ enqueued = <<>>
  /\ taken = <<>>
  /\ fetched = <<>>

\* out_csv before the run opens it
NoStore == [exists |-> FALSE, header |-> FALSE, rows |-> <<>>]

\* the columns of the dataset-map file
cols == <<"id", "controller_url", "http_status", "discovery", "final_url", "page_name", "years", "error">>

(***************************************************************************)
(* scanner.py: map_d_range(start, end) and the steps of probe_d_id.        *)
(***************************************************************************)
Init ==
  /\ start \in 1..MaxEnd
  /\ end \in 0..MaxEnd
  /\ end >= start - 1
  /\ n = start
  /\ pc = IF start <= end THEN "request" ELSE "open"
  /\ row = None
  /\ rows = <<>>
  /\ store = NoStore
  /\ wi = 1
  /\ requests = <<>>
  /\ outcomes = <<>>
  /\ sleeps = 0
  /\ CatalogIdle
  /\ PureIdle
  /\ CrawlIdle

\* s.get answers with a response and probe_d_id fills the row from it
ProbeOk ==
  /\ pc = "request"
  /\ \E o \in Outcomes(ctrl_url(n)) :
       /\ o.kind = "response"
       /\ row' = probe_d_id(n, o)
       /\ outcomes' = Append(outcomes, o)
  /\ requests' = Append(requests, ctrl_url(n))
  /\ pc' = "sleep"
  /\ UNCHANGED <<start, end, n, rows, store, wi, sleeps, cvars, pvars, kvars>>

\* ProbeFail without the except clause around the request: the exception
\* leaves the probing loop
ProbeFail_aborts_loop ==
  /\ pc = "request"
  /\ \E o \in Outcomes(ctrl_url(n)) :
       /\ o.kind = "exception"
       /\ row' = probe_d_id(n, o)
       /\ outcomes' = Append(outcomes, o)
  /\ requests' = Append(requests, ctrl_url(n))
  /\ pc' = "open"
  /\ UNCHANGED <<start, end, n, rows, store, wi, sleeps, cvars, pvars, kvars>>

\* ProbeFail with one more attempt after a failed request
ProbeFail_retries ==
  /\ pc = "request"
  /\ \E o \in Outcomes(ctrl_url(n)) :
       /\ o.kind = "exception"
       /\ row' = probe_d_id(n, o)
       /\ outcomes' = Append(outcomes, o)
  /\ requests' = Append(requests, ctrl_url(n))
  /\ pc' = IF requests # <<>> /\ requests[Len(requests)] = ctrl_url(n) THEN "sleep" ELSE "request"
  /\ UNCHANGED <<start, end, n, rows, store, wi, sleeps, cvars, pvars, kvars>>

\* s.get raises requests.RequestException and the except clause fills the row
ProbeFail ==
  /\ pc = "request"
  /\ \E o \in Outcomes(ctrl_url(n)) :
       /\ o.kind = "exception"
       /\ row' = probe_d_id(n, o)
       /\ outcomes' = Append(outcomes, o)
  /\ requests' = Append(requests, ctrl_url(n))
  /\ pc' = "sleep"
  /\ UNCHANGED <<start, end, n, rows, store, wi, sleeps, cvars, pvars, kvars>>

\* Sleep with the pause inside the try block, skipped by the except clause
Sleep_skipped_after_failure ==
  /\ pc = "sleep"
  /\ sleeps' = IF row.discovery = "error" THEN sleeps ELSE sleeps + 1
  /\ pc' = "append"
  /\ UNCHANGED <<start, end, n, row, rows, store, wi, requests, outcomes, cvars, pvars, kvars>>

\* the polite pause at the end of probe_d_id
Sleep ==
  /\ pc = "sleep"
  /\ sleeps' = sleeps + 1
  /\ pc' = "append"
  /\ UNCHANGED <<start, end, n, row, rows, store, wi, requests, outcomes, cvars, pvars, kvars>>

\* AppendRow keeping only the rows of resolved pages
AppendRow_drops_unresolved ==
  /\ pc = "append"
  /\ rows' = IF row.final_url # "" THEN Append(rows, row) ELSE rows
  /\ n' = n + 1
  /\ pc' = IF n + 1 <= end THEN "request" ELSE "open"
  /\ UNCHANGED <<start, end, row, store, wi, requests, outcomes, sleeps, cvars, pvars, kvars>>

\* rows.append(row) and the step of the for loop
AppendRow ==
  /\ pc = "append"
  /\ rows' = Append(rows, row)
  /\ n' = n + 1
  /\ pc' = IF n + 1 <= end THEN "request" ELSE "open"
  /\ UNCHANGED <<start, end, row, store, wi, requests, outcomes, sleeps, cvars, pvars, kvars>>

\* open(out_csv, "w"): the file is created or truncated
OpenStore ==
  /\ pc = "open"
  /\ store' = [exists |-> TRUE, header |-> FALSE, rows |-> <<>>]
  /\ pc' = "header"
  /\ UNCHANGED <<start, end, n, row, rows, wi, requests, outcomes, sleeps, cvars, pvars, kvars>>

\* w.writeheader()
WriteHeader ==
  /\ pc = "header"
  /\ store' = [store EXCEPT !.header = TRUE]
  /\ wi' = 1
  /\ pc' = IF rows = <<>> THEN "close" ELSE "rows"
  /\ UNCHANGED <<start, end, n, row, rows, requests, outcomes, sleeps, cvars, pvars, kvars>>

\* w.writerow({k: r.get(k, "") for k in cols}) for the next row
WriteRow ==
  /\ pc = "rows"
  /\ store' = [store EXCEPT !.rows = Append(@, [k \in Range(cols) |-> rows[wi][k]])]
  /\ wi' = wi + 1
  /\ pc' = IF wi = Len(rows) THEN "close" ELSE "rows"
  /\ UNCHANGED <<start, end, n, row, rows, requests, outcomes, sleeps, cvars, pvars, kvars>>

\* the with block closes the file and map_d_range returns rows
CloseStore ==
  /\ pc = "close"
  /\ pc' = "done"
  /\ UNCHANGED <<start, end, n, row, rows, store, wi, requests, outcomes, sleeps, cvars, pvars, kvars>>

\* the run is terminated from outside (interrupt, kill); what the writer has
\* written so far is what the file keeps
Terminate ==
  /\ pc \in {"request", "sleep", "append", "open", "header", "rows", "close"}
  /\ pc' = "killed"
  /\ UNCHANGED <<start, end, n, row, rows, store, wi, requests, outcomes, sleeps, cvars, pvars, kvars>>

Next ==
  \/ ProbeOk
  \/ ProbeFail
  \/ Sleep
  \/ AppendRow
  \/ OpenStore
  \/ WriteHeader
  \/ WriteRow
  \/ CloseStore
  \/ Terminate

Spec == Init /\ [][Next]_vars

(***************************************************************************)
(* src/wonder/catalog.py: the rule table.                                  *)
(***************************************************************************)
\* A pattern of the table: the regex source, read as a literal followed by an
\* optional non-capturing group of alternatives, where the alternative "$" is
\* the end-of-string anchor.
Lit(s) == [re |-> s, lit |-> s, group |-> <<>>, opt |-> FALSE]

Grp(src, s, alts, optional) == [re |-> src, lit |-> s, group |-> alts, opt |-> optional]

\* str.format of a reason_template: the text before {dataset_id}, between the
\* two fields, and after {page_name}
Template(a, b, c) == [pre |-> a, mid |-> b, post |-> c]

\* the rule table, in its authored order
TOPIC_SEARCH_TERMS == <<
  [topic |-> "Maternal & Child Health",
   patterns |-> <<Lit("fetal"),
                 Lit("lbd"),
                 Lit("infant")>>,
   reason_template |->
     Template("Dataset '",
              "' maps to 'Maternal & Child Health' because its page name '",
              "' contains fetal death or linked birth/infant death (LBD) pa"
                     \o "tterns. LBD datasets link infant death records to correspond"
                     \o "ing birth certificates for analysis of infant mortality risk"
                     \o " factors.")],
  [topic |-> "Population Estimates",
   patterns |-> <<Lit("bridged-race"),
                 Lit("single-race"),
                 Lit("population-projection"),
                 Lit("birth-death-migration")>>,
   reason_template |->
     Template("Dataset '",
              "' maps to 'Population Estimates' because its page name '",
              "' contains population estimation patterns. Bridged-race and "
                     \o "single-race datasets provide demographic population estimate"
                     \o "s used as denominators for calculating health rates.")],
  [topic |-> "Birth & Natality",
   patterns |-> <<Lit("natality")>>,
   reason_template |->
     Template("Dataset '",
              "' maps to 'Birth & Natality' because its page name '",
              "' contains natality/birth-related keywords. Natality dataset"
                     \o "s provide birth statistics including birth rates, birth weig"
                     \o "hts, maternal characteristics, and prenatal care information"
                     \o ".")],
  [topic |-> "Cancer",
   patterns |-> <<Lit("cancer"),
                 Lit("cancermort"),
                 Lit("cancermir"),
                 Lit("cancernpcr")>>,
   reason_template |->
     Template("Dataset '",
              "' maps to 'Cancer' because its page name '",
              "' contains cancer-related keywords. These datasets cover can"
                     \o "cer incidence rates, cancer mortality, survival statistics, "
                     \o "and data from the National Program of Cancer Registries (NPC"
                     \o "R).")],
  [topic |-> "Infectious Diseases",
   patterns |-> <<Lit("aids"),
                 Grp("tb(?:-|$|v)", "tb", <<"-", "$", "v">>, FALSE),
                 Lit("std"),
                 Lit("tuberculosis")>>,
   reason_template |->
     Template("Dataset '",
              "' maps to 'Infectious Diseases' because its page name '",
              "' contains patterns for AIDS, tuberculosis (TB), or sexually"
                     \o " transmitted diseases (STD). These are key infectious diseas"
                     \o "e surveillance datasets tracking reportable conditions.")],
  [topic |-> "Vaccinations & Immunizations",
   patterns |-> <<Lit("vaers"),
                 Lit("vaccine"),
                 Lit("immunization")>>,
   reason_template |->
     Template("Dataset '",
              "' maps to 'Vaccinations & Immunizations' because its page na"
                     \o "me '",
              "' contains VAERS or vaccine-related keywords. VAERS (Vaccine"
                     \o " Adverse Event Reporting System) tracks reported adverse eve"
                     \o "nts following vaccination.")],
  [topic |-> "Environmental Health",
   patterns |-> <<Lit("nasa"),
                 Lit("nldas"),
                 Lit("heatwave"),
                 Lit("nca"),
                 Lit("insolar"),
                 Lit("precipitation"),
                 Grp("pm(?:2\\.5|25)?", "pm", <<"2.5", "25">>, TRUE),
                 Lit("lst")>>,
   reason_template |->
     Template("Dataset '",
              "' maps to 'Environmental Health' because its page name '",
              "' contains environmental/climate data patterns. These datase"
                     \o "ts from NASA and NCA provide environmental exposure data inc"
                     \o "luding air quality (PM2.5), temperature, precipitation, and "
                     \o "heat wave metrics.")],
  [topic |-> "Notifiable Conditions",
   patterns |-> <<Lit("nndss")>>,
   reason_template |->
     Template("Dataset '",
              "' maps to 'Notifiable Conditions' because its page name '",
              "' contains NNDSS (National Notifiable Diseases Surveillance "
                     \o "System). This system tracks diseases required by law to be r"
                     \o "eported to public health authorities.")],
  [topic |-> "Mortality",
   patterns |-> <<Lit("cmf"),
                 Lit("ucd"),
                 Lit("mcd"),
                 Lit("mortality")>>,
   reason_template |->
     Template("Dataset '",
              "' maps to 'Mortality' because its page name '",
              "' matches mortality-related patterns (CMF=Compressed Mortali"
                     \o "ty File, UCD=Underlying Cause of Death, MCD=Multiple Cause o"
                     \o "f Death). These datasets track death rates and causes of dea"
                     \o "th across populations.")]
>>

\* the pattern matches at position i of text; both are lower-cased by the caller
re_match_at(p, text, i) ==
  LET j == i + Len(p.lit)
      alt(a) == IF a = "$" THEN j = Len(text) + 1
                ELSE Slice(text, j, j + Len(a) - 1) = a
  IN  /\ j - 1 <= Len(text)
      /\ SubSeq(text, i, j - 1) = p.lit
      /\ \/ p.group = <<>>
         \/ p.opt
         \/ \E k \in 1..Len(p.group) : alt(p.group[k])

\* bool(re.search(pattern, text, re.IGNORECASE)): letters compare without case
re_search(p, text) ==
  LET t == Lower(text)
      q == [p EXCEPT !.lit = Lower(p.lit),
                     !.group = [k \in 1..Len(p.group) |-> Lower(p.group[k])]]
  IN  \E i \in 1..(Len(t) + 1) : re_match_at(q, t, i)

\* reason_template.format(dataset_id=..., page_name=...)
format(t, dataset_id, page_name) == t.pre \o dataset_id \o t.mid \o page_name \o t.post

get_category_empty_default(t2c, topic_name) ==
  IF topic_name \in DOMAIN t2c THEN t2c[topic_name] ELSE ""

\* topic_to_category.get(topic_name, "Unknown")
get_category(t2c, topic_name) ==
  IF topic_name \in DOMAIN t2c THEN t2c[topic_name] ELSE "Unknown"

make_mapping_lowercases_slug(rule, dataset, t2c) ==
  [dataset_id |-> dataset.id,
   page_name  |-> dataset.page_name,
   final_url  |-> dataset.final_url,
   topic      |-> rule.topic,
   category   |-> get_category(t2c, rule.topic),
   reason     |-> format(rule.reason_template, dataset.id, Lower(dataset.page_name)),
   years      |-> dataset.years]

\* the DatasetMapping classify_dataset builds when a pattern of the rule matches
make_mapping(rule, dataset, t2c) ==
  [dataset_id |-> dataset.id,
   page_name  |-> dataset.page_name,
   final_url  |-> dataset.final_url,
   topic      |-> rule.topic,
   category   |-> get_category(t2c, rule.topic),
   reason     |-> format(rule.reason_template, dataset.id, dataset.page_name),
   years      |-> dataset.years]

RECURSIVE classify_from(_, _, _, _, _, _)
\* the nested loops of classify_dataset over the items of the table, from rule
\* ti, pattern pi on, against the lower-cased page_name: the first pattern that
\* matches returns the mapping; None when all are exhausted
classify_from(table, dataset, page_name, t2c, ti, pi) ==
  IF ti > Len(table) THEN None
  ELSE IF pi > Len(table[ti].patterns)
       THEN classify_from(table, dataset, page_name, t2c, ti + 1, 1)
  ELSE IF re_search(table[ti].patterns[pi], page_name)
       THEN Some(make_mapping(table[ti], dataset, t2c))
       ELSE classify_from(table, dataset, page_name, t2c, ti, pi + 1)

\* the number of patterns of the rule that match the text
pattern_hits(rule, text) ==
  Cardinality({k \in 1..Len(rule.patterns) : re_search(rule.patterns[k], text)})

\* classify_dataset as best-match scoring: the rule with the most matching
\* patterns wins, the earlier rule on a tie
classify_dataset_best_match(dataset, t2c) ==
  LET page_name == Lower(dataset.page_name)
      T == TOPIC_SEARCH_TERMS
      matching == {i \in 1..Len(T) : pattern_hits(T[i], page_name) > 0}
      best == CHOOSE i \in matching : \A j \in matching :
                \/ pattern_hits(T[i], page_name) > pattern_hits(T[j], page_name)
                \/ pattern_hits(T[i], page_name) = pattern_hits(T[j], page_name) /\ i <= j
  IN  IF matching = {} THEN None ELSE Some(make_mapping(T[best], dataset, t2c))

\* classify_dataset over a table in which the Mortality rule was moved to the front
classify_dataset_mortality_first(dataset, t2c) ==
  LET page_name == Lower(dataset.page_name)
      T == TOPIC_SEARCH_TERMS
      moved == <<T[Len(T)]>> \o SubSeq(T, 1, Len(T) - 1)
  IN  classify_from(moved, dataset, page_name, t2c, 1, 1)

\* classify_dataset that compares the letters of the page_name as they are
classify_dataset_exact_case(dataset, t2c) ==
  LET T == TOPIC_SEARCH_TERMS
      hit(i) == \E k \in 1..Len(T[i].patterns) :
                  \E c \in 1..(Len(dataset.page_name) + 1) :
                    re_match_at(T[i].patterns[k], dataset.page_name, c)
      matching == {i \in 1..Len(T) : hit(i)}
  IN  IF matching = {} THEN None
      ELSE Some(make_mapping(T[MinOr(matching, 1)], dataset, t2c))

\* classify_dataset over the table read from its last rule to its first
classify_dataset_reversed_table(dataset, t2c) ==
  LET page_name == Lower(dataset.page_name)
      T == TOPIC_SEARCH_TERMS
      reversed == [i \in 1..Len(T) |-> T[Len(T) + 1 - i]]
  IN  classify_from(reversed, dataset, page_name, t2c, 1, 1)

\* classify_dataset(dataset, topic_to_category): a DatasetMapping or None
classify_dataset(dataset, t2c) ==
  LET page_name == Lower(dataset.page_name)
  IN  classify_from(TOPIC_SEARCH_TERMS, dataset, page_name, t2c, 1, 1)

\* load_dataset_map that tests the page_name only
load_dataset_map_any_discovery(file_rows) ==
  SelectSeq(file_rows, LAMBDA r : r.page_name # "")

\* load_dataset_map: the rows with a page_name whose discovery is "redirect"
load_dataset_map(file_rows) ==
  SelectSeq(file_rows, LAMBDA r : r.page_name # "" /\ r.discovery = "redirect")

\* build_topic_to_category_map(topics_data): a later entry for a name replaces
\* an earlier one
build_topic_to_category_map(topics_data) ==
  LET pairs == FlatMap(topics_data.health, LAMBDA c :
                 FlatMap(c.topics, LAMBDA t :
                   IF t.name # "" THEN <<[name |-> t.name, category |-> c.category]>> ELSE <<>>))
      names == {pairs[i].name : i \in 1..Len(pairs)}
      last(nm) == CHOOSE i \in 1..Len(pairs) :
                    pairs[i].name = nm /\ \A j \in 1..Len(pairs) : pairs[j].name = nm => j <= i
  IN  [nm \in names |-> pairs[last(nm)].category]

unmapped_entry_without_advice(dataset) ==
  [dataset_id |-> dataset.id,
   page_name  |-> dataset.page_name,
   final_url  |-> dataset.final_url,
   reason     |-> "Dataset '" \o dataset.id \o "' with page '" \o dataset.page_name
                  \o "' could not be mapped to any topic."]

\* the UnmappedDataset catalog_datasets records for a dataset no rule matches
unmapped_entry(dataset) ==
  [dataset_id |-> dataset.id,
   page_name  |-> dataset.page_name,
   final_url  |-> dataset.final_url,
   reason     |-> "Dataset '" \o dataset.id \o "' with page '" \o dataset.page_name
                  \o "' could not be mapped to any topic. None of the defined search patterns"
                  \o " matched the page name. Consider adding a new pattern to"
                  \o " TOPIC_SEARCH_TERMS if this dataset belongs to an existing topic,"
                  \o " or create a new topic category."]

RECURSIVE digits_prefix(_)
\* the longest prefix of s made of digits: what (\d+) takes at the start of s
digits_prefix(s) ==
  IF s = "" THEN ""
  ELSE IF IsDigit(CharAt(s, 1)) THEN CharAt(s, 1) \o digits_prefix(Tail(s))
  ELSE ""

\* group(1) of a match whose group took the digits, None when it took none
group_or_none(digits) == IF digits = "" THEN None ELSE Some(digits)

\* re.match(r"D(\d+)", dataset_id): a match anchored at the start only
match_d_digits(dataset_id) ==
  IF StartsWith(dataset_id, "D") THEN group_or_none(digits_prefix(Tail(dataset_id))) ELSE None

\* int(match.group(1)) if match else 0
ordinal_of(match) == IF match # None THEN IntOfStr(match[1]) ELSE 0

dataset_id_sort_key(dataset_id) == ordinal_of(match_d_digits(dataset_id))

\* the place of x behind the entries of the sorted list s whose key is not greater
place_at(s, x, k) == SubSeq(s, 1, k) \o <<x>> \o SubSeq(s, k + 1, Len(s))

insert_by_key_unsorted(s, x) == Append(s, x)

insert_by_key(s, x) ==
  place_at(s, x, Cardinality({i \in 1..Len(s) :
     dataset_id_sort_key(s[i].dataset_id) <= dataset_id_sort_key(x.dataset_id)}))

RECURSIVE sorted_by_id(_)
\* sorted(xs, key=lambda x: dataset_id_sort_key(x.dataset_id)): stable
sorted_by_id(xs) ==
  IF xs = <<>> THEN <<>>
  ELSE insert_by_key(sorted_by_id(SubSeq(xs, 1, Len(xs) - 1)), xs[Len(xs)])

\* output_data of write_topics_mapping
output_data(datasets_list, unmapped_list) ==
  [description    |-> "CDC Wonder dataset to health topic mappings",
   generated_by   |-> "src/wonder/catalog.py",
   total_mapped   |-> Len(datasets_list),
   total_unmapped |-> Len(unmapped_list),
   mappings       |-> datasets_list,
   unmapped       |-> unmapped_list]

\* what the run of write_topics_mapping leaves in the file
written_record(ms, us) == output_data(sorted_by_id(ms), sorted_by_id(us))

\* by_topic[topic] after the in-place sort: the mappings of the topic in file
\* order, sorted stably by dataset_id_sort_key
by_topic(ms, topic) == sorted_by_id(SelectSeq(ms, LAMBDA m : m.topic = topic))

RECURSIVE sorted_strings(_)
\* sorted(keys) of a set of strings
sorted_strings(S) ==
  IF S = {} THEN <<>>
  ELSE LET least == CHOOSE t \in S : \A o \in S : o = t \/ StrLess(t, o)
       IN  <<least>> \o sorted_strings(S \ {least})

\* the line printed for a mapped dataset: the years in brackets when it has any
dataset_line(d) ==
  "  " \o d.dataset_id \o ": " \o d.page_name
    \o (IF d.years # "" THEN " (" \o d.years \o ")" ELSE "")

\* the line printed for an unmapped dataset
unmapped_line(u) == "  " \o u.dataset_id \o ": " \o u.page_name

\* the section printed for a topic: heading, then one line per dataset
topic_section(topic, ds) ==
  [topic    |-> topic,
   heading  |-> "### " \o topic \o " (" \o StrOfNat(Len(ds)) \o " datasets)",
   datasets |-> ds,
   lines    |-> [i \in 1..Len(ds) |-> dataset_line(ds[i])]]

\* what is printed for the record of the file when the topics are visited in
\* the given order: a section per topic, the unmapped section, the totals
grouped_report(data, topic_order) ==
  [sections |-> [i \in 1..Len(topic_order) |->
                   topic_section(topic_order[i], by_topic(data.mappings, topic_order[i]))],
   unmapped |-> LET us == sorted_by_id(data.unmapped)
                IN  [i \in 1..Len(us) |-> unmapped_line(us[i])],
   total    |-> "Total: " \o StrOfNat(data.total_mapped) \o " mapped, "
                  \o StrOfNat(data.total_unmapped) \o " unmapped"]

\* print_datasets_by_topic(mapping_path) on the record read from the file
print_datasets_by_topic(data) ==
  grouped_report(data, sorted_strings({data.mappings[i].topic : i \in 1..Len(data.mappings)}))

(***************************************************************************)
(* The inputs a classification pass is explored under.                     *)
(***************************************************************************)
\* a row of dataset_map.csv as the discovery run writes it for a page
MapRow(id, page, discovery, status) ==
  [id |-> id, controller_url |-> CTRL \o "/" \o id, http_status |-> status,
   discovery |-> discovery,
   final_url |-> IF page = "" THEN "" ELSE BASE \o "/" \o page,
   page_name |-> page, years |-> extract_years(page), error |-> ""]

SampleRows ==
  { MapRow("D176", "ucd-icd10.html", "redirect", "200"),
    MapRow("D999", "unknown-page.html", "redirect", "200"),
    MapRow("D27", "fetal-mortality.html", "redirect", "200"),
    MapRow("D31", "Infant-MCD-UCD.html", "redirect", "200"),
    \* the same slugs in another letter case
    MapRow("D32", "infant-mcd-ucd.html", "redirect", "200"),
    MapRow("D998", "Unknown-Page.html", "redirect", "200"),
    MapRow("D8", "bridged-race-v2020.html", "redirect", "200"),
    MapRow("D202", "tb.html", "redirect", "200"),
    MapRow("X1", "cancermort-natality.html", "redirect", "500"),
    MapRow("D5", "", "direct", "200"),
    MapRow("D6", "", "http_404", "404"),
    \* a row that names a page without a redirect, and the row of a failed probe
    MapRow("D7", "mcd-icd10.html", "direct", "200"),
    [MapRow("D9", "", "error", "error") EXCEPT !.error = "Read timed out."] }

Topic(nm) == [name |-> nm]

\* health-data-topics.json: categories, each with its named topics
Taxonomies ==
  { [health |-> <<
       [category |-> "Vital Statistics",
        topics |-> <<Topic("Mortality"), Topic("Birth & Natality"),
                     Topic("Maternal & Child Health"), Topic("Population Estimates")>>],
       [category |-> "Diseases & Conditions",
        topics |-> <<Topic("Cancer"), Topic("Infectious Diseases"),
                     Topic("Notifiable Conditions")>>],
       [category |-> "Prevention & Environment",
        topics |-> <<Topic("Vaccinations & Immunizations"), Topic("Environmental Health")>>] >>],
    \* a taxonomy that lacks most topics, names one twice and has an unnamed topic
    [health |-> <<
       [category |-> "Vital Statistics",
        topics |-> <<Topic("Birth & Natality"), Topic("Maternal & Child Health"), Topic("")>>],
       [category |-> "Family Health",
        topics |-> <<Topic("Maternal & Child Health")>>] >>] }

\* what can be wrong with the two input files when a run loads them: open()
\* finds no file, the bytes of dataset_map.csv are not UTF-8, the text of
\* health-data-topics.json is not JSON
Faults == {"none", "map_missing", "map_undecodable", "topics_missing", "topics_invalid"}

\* most runs of main in a row
MaxRuns == 2

\* the lists of length at most k over the set S
SeqsUpTo(S, k) == UNION {[1..m -> S] : m \in 0..k}

\* the discovery run is not running
ScannerIdle ==
  /\ pc = "idle"
  /\ start = 1
  /\ end = 0
  /\ n = 1
  /\ row = None
  /\ rows = <<>>
  /\ store = NoStore
  /\ wi = 1
  /\ requests = <<>>
  /\ outcomes = <<>>
  /\ sleeps = 0

(***************************************************************************)
(* src/wonder/catalog.py: catalog_datasets.                                *)
(***************************************************************************)
CatalogInit ==
  /\ ScannerIdle
  /\ PureIdle
  /\ CrawlIdle
  /\ cpc = "load"
  /\ dataset_map \in SeqsUpTo(SampleRows, MaxRows)
  /\ topics \in Taxonomies
  /\ datasets = <<>>
  /\ topic_to_category = <<>>
  /\ di = 1
  /\ mappings = <<>>
  /\ unmapped = <<>>
  /\ fault = "none"
  /\ out_file = None
  /\ prev_run = None
  /\ runs = 1
  /\ report = None

\* CatalogLoad with lists that outlive the call instead of "mappings = []"
CatalogLoad_keeps_lists ==
  /\ cpc = "load"
  /\ fault = "none"
  /\ datasets' = load_dataset_map(dataset_map)
  /\ topic_to_category' = build_topic_to_category_map(topics)
  /\ di' = 1
  /\ cpc' = "classify"
  /\ UNCHANGED <<dataset_map, topics, mappings, unmapped, fault, out_file, prev_run, runs, report,
                 svars, pvars, kvars>>

\* load_dataset_map, load_topics and build_topic_to_category_map succeed, and
\* catalog_datasets starts with empty lists
CatalogLoad ==
  /\ cpc = "load"
  /\ fault = "none"
  /\ datasets' = load_dataset_map(dataset_map)
  /\ topic_to_category' = build_topic_to_category_map(topics)
  /\ mappings' = <<>>
  /\ unmapped' = <<>>
  /\ di' = 1
  /\ cpc' = "classify"
  /\ UNCHANGED <<dataset_map, topics, fault, out_file, prev_run, runs, report, svars, pvars, kvars>>

\* CatalogLoadFails that leaves an empty catalog behind
CatalogLoadFails_writes_empty ==
  /\ cpc = "load"
  /\ fault # "none"
  /\ cpc' = "failed"
  /\ out_file' = Some(written_record(<<>>, <<>>))
  /\ UNCHANGED <<dataset_map, topics, datasets, topic_to_category, di, mappings, unmapped,
                 fault, prev_run, runs, report, svars, pvars, kvars>>

\* open() or the decoder raises in load_dataset_map or load_topics: the
\* exception leaves catalog_datasets and main, which handle none
CatalogLoadFails ==
  /\ cpc = "load"
  /\ fault # "none"
  /\ cpc' = "failed"
  /\ UNCHANGED <<dataset_map, topics, datasets, topic_to_category, di, mappings, unmapped,
                 fault, out_file, prev_run, runs, report, svars, pvars, kvars>>

\* ClassifyNext without the else branch: a dataset no rule matches is dropped
ClassifyNext_drops_unmatched ==
  /\ cpc = "classify"
  /\ di <= Len(datasets)
  /\ LET mapping == classify_dataset(datasets[di], topic_to_category)
     IN  /\ mappings' = IF mapping # None THEN Append(mappings, mapping[1]) ELSE mappings
         /\ unmapped' = unmapped
  /\ di' = di + 1
  /\ UNCHANGED <<cpc, dataset_map, topics, datasets, topic_to_category,
                 fault, out_file, prev_run, runs, report, svars, pvars, kvars>>

\* one iteration of "for dataset in datasets"
ClassifyNext ==
  /\ cpc = "classify"
  /\ di <= Len(datasets)
  /\ LET mapping == classify_dataset(datasets[di], topic_to_category)
     IN  IF mapping # None
         THEN /\ mappings' = Append(mappings, mapping[1])
              /\ unmapped' = unmapped
         ELSE /\ unmapped' = Append(unmapped, unmapped_entry(datasets[di]))
              /\ mappings' = mappings
  /\ di' = di + 1
  /\ UNCHANGED <<cpc, dataset_map, topics, datasets, topic_to_category,
                 fault, out_file, prev_run, runs, report, svars, pvars, kvars>>

\* the loop is over: catalog_datasets returns (mappings, unmapped)
CatalogReturn ==
  /\ cpc = "classify"
  /\ di > Len(datasets)
  /\ cpc' = "classified"
  /\ UNCHANGED <<dataset_map, topics, datasets, topic_to_category, di, mappings, unmapped,
                 fault, out_file, prev_run, runs, report, svars, pvars, kvars>>

\* write_topics_mapping(output_path, mappings, unmapped)
CatalogWrite ==
  /\ cpc = "classified"
  /\ out_file' = Some(written_record(mappings, unmapped))
  /\ cpc' = "written"
  /\ UNCHANGED <<dataset_map, topics, datasets, topic_to_category, di, mappings, unmapped,
                 fault, prev_run, runs, report, svars, pvars, kvars>>

\* CatalogReport that lists the topics in the order of the file
CatalogReport_topics_as_met ==
  /\ cpc = "written"
  /\ report' = Some(grouped_report(out_file[1],
                      SelectSeqDedup([i \in 1..Len(out_file[1].mappings) |->
                                        out_file[1].mappings[i].topic], LAMBDA t : TRUE, {})))
  /\ cpc' = "reported"
  /\ UNCHANGED <<dataset_map, topics, datasets, topic_to_category, di, mappings, unmapped,
                 fault, out_file, prev_run, runs, svars, pvars, kvars>>

\* print_datasets_by_topic(output_path): main prints the grouped report from
\* the file it has just written
CatalogReport ==
  /\ cpc = "written"
  /\ report' = Some(print_datasets_by_topic(out_file[1]))
  /\ cpc' = "reported"
  /\ UNCHANGED <<dataset_map, topics, datasets, topic_to_category, di, mappings, unmapped,
                 fault, out_file, prev_run, runs, svars, pvars, kvars>>

\* main is run again after a run that wrote the file and printed the report;
\* the input files have their rows and topics as before, readable or not
CatalogRerun ==
  /\ cpc = "reported"
  /\ runs < MaxRuns
  /\ runs' = runs + 1
  /\ prev_run' = Some([mappings |-> mappings, unmapped |-> unmapped, out |-> out_file[1]])
  /\ fault' \in Faults
  /\ cpc' = "load"
  /\ UNCHANGED <<dataset_map, topics, datasets, topic_to_category, di, mappings, unmapped,
                 out_file, report, svars, pvars, kvars>>

CatalogNext ==
  \/ CatalogLoad
  \/ ClassifyNext
  \/ CatalogReturn

CatalogSpec == CatalogInit /\ [][CatalogNext]_vars

(***************************************************************************)
(* src/wonder/catalog.py: main, run once or several times on the same      *)
(* files, readable or not.                                                 *)
(***************************************************************************)
\* rows of dataset_map.csv whose identifiers sort in another order than they
\* are listed: mapped and unmapped ones, identifiers that are not D<digits>
WriterRows ==
  { MapRow("D176", "ucd-icd10.html", "redirect", "200"),
    MapRow("D8", "bridged-race-v2020.html", "redirect", "200"),
    MapRow("D12x", "mcd-icd10.html", "redirect", "200"),
    MapRow("X1", "cancermort-natality.html", "redirect", "500"),
    MapRow("D999", "unknown-page.html", "redirect", "200"),
    MapRow("D30", "other-page.html", "redirect", "200") }

MainInit ==
  /\ ScannerIdle
  /\ PureIdle
  /\ CrawlIdle
  /\ cpc = "load"
  /\ dataset_map \in SeqsUpTo(WriterRows, MaxRows)
  /\ topics \in Taxonomies
  /\ datasets = <<>>
  /\ topic_to_category = <<>>
  /\ di = 1
  /\ mappings = <<>>
  /\ unmapped = <<>>
  /\ fault \in Faults
  /\ out_file = None
  /\ prev_run = None
  /\ runs = 1
  /\ report = None

MainNext ==
  \/ CatalogLoad
  \/ CatalogLoadFails
  \/ ClassifyNext
  \/ CatalogReturn
  \/ CatalogWrite
  \/ CatalogReport
  \/ CatalogRerun

MainSpec == MainInit /\ [][MainNext]_vars

(***************************************************************************)
(* scanner.py: the canonical-page filter and pick_best_html called on      *)
(* lists of candidate URLs.                                                *)
(***************************************************************************)
\* longest candidate list handed to the filter and to the selector
MaxCand == 3

\* URLs a probe can meet: two pages with the same keyword count and path
\* length, two block-listed pages (one only as a substring, and with a
\* keyword), a page of another host and a URL without scheme and host, both
\* with fewer keywords
CandidateUrls ==
  { BASE \o "/ucd-icd10.html",
    BASE \o "/mcd-icd10.html",
    BASE \o "/faq.html",
    BASE \o "/UCD-Domain.html",
    "https://www.cdc.gov/nchs/mortality.html",
    "/cmf-icd9.html" }

\* the fallbacks probe_d_id hands over: r.url when it is a static page, else None
Fallbacks == {None, Some(BASE \o "/faq.html")}

SelectorInit ==
  /\ ScannerIdle
  /\ CatalogIdle
  /\ CrawlIdle
  /\ ppc = "select"
  /\ sel_urls \in SeqsUpTo(CandidateUrls, MaxCand)
  /\ sel_fallback \in Fallbacks
  /\ sel_filtered = None
  /\ sel_chosen = None
  /\ yr_text = ""
  /\ yr_result = None

\* the filter loop of probe_d_id and html_redirect_candidates on the list
FilterCanonical ==
  /\ ppc = "select"
  /\ sel_filtered = None
  /\ sel_filtered' = Some(keep_wonder_html(sel_urls))
  /\ UNCHANGED <<ppc, sel_urls, sel_fallback, sel_chosen, yr_text, yr_result, svars, cvars, kvars>>

\* pick_best_html(candidates, fallback) on the list
PickBest ==
  /\ ppc = "select"
  /\ sel_chosen = None
  /\ sel_chosen' = Some(pick_best_html(sel_urls, sel_fallback))
  /\ UNCHANGED <<ppc, sel_urls, sel_fallback, sel_filtered, yr_text, yr_result, svars, cvars, kvars>>

SelectorNext ==
  \/ FilterCanonical
  \/ PickBest

SelectorSpec == SelectorInit /\ [][SelectorNext]_vars

(***************************************************************************)
(* scanner.py: extract_years called on page names.                         *)
(***************************************************************************)
\* most pieces a page name is put together from
MaxTokens == 3

\* pieces of page names: letters, separators, years inside and outside the
\* window, and a lone digit that lengthens a run of digits
NameTokens == {"x", "x-", "1999", "-2005", "2010", "0", "3000"}

RECURSIVE Concat(_)
\* "".join(parts)
Concat(parts) == IF parts = <<>> THEN "" ELSE Head(parts) \o Concat(Tail(parts))

YearsInit ==
  /\ ScannerIdle
  /\ CatalogIdle
  /\ CrawlIdle
  /\ ppc = "years"
  /\ yr_text \in {Concat(parts) : parts \in SeqsUpTo(NameTokens, MaxTokens)}
  /\ yr_result = None
  /\ sel_urls = <<>>
  /\ sel_fallback = None
  /\ sel_filtered = None
  /\ sel_chosen = None

\* row["years"] = extract_years(row["page_name"])
ExtractYears ==
  /\ ppc = "years"
  /\ yr_result = None
  /\ yr_result' = Some(extract_years(yr_text))
  /\ UNCHANGED <<ppc, yr_text, sel_urls, sel_fallback, sel_filtered, sel_chosen, svars, cvars, kvars>>

YearsNext == ExtractYears

YearsSpec == YearsInit /\ [][YearsNext]_vars

(***************************************************************************)
(* src/wonder/crawl.py: the link harvester.                                *)
(***************************************************************************)
\* most pages a call may be allowed, and most seeds it is given
MaxPages == 3

MaxSeeds == 2

\* is_wonder_html of crawl.py
crawl_is_wonder_html(url) ==
  LET u == urlparse(url)
  IN  IF u.scheme = "" \/ u.netloc = "" THEN FALSE
      ELSE IF Lower(u.netloc) # Lower(urlparse(BASE).netloc) THEN FALSE
      ELSE EndsWith(Lower(u.path), ".html")

\* normalize(url, base)
normalize(url, base) == urljoin(base, url)

\* the position holds a digit
DigitAt(text, i) == i >= 1 /\ i <= Len(text) /\ IsDigit(CharAt(text, i))

\* \d{4} matches at the position
FourDigitsAt(text, i) == \A k \in 0..3 : DigitAt(text, i + k)

\* where \s* ends when it starts at the position
SkipSpaces(text, i) == MinOr({k \in i..(Len(text) + 1) : CharAt(text, k) # " "}, Len(text) + 1)

\* (\d{4})\s*[-]\s*(\d{4}) matches at the position; the en dash of the
\* pattern is outside the modelled alphabet
year_range_at(text, i) ==
  /\ FourDigitsAt(text, i)
  /\ CharAt(text, SkipSpaces(text, i + 4)) = "-"
  /\ FourDigitsAt(text, SkipSpaces(text, SkipSpaces(text, i + 4) + 1))

\* the two groups of the match at the position, joined by "-"
year_range_of(text, i, second) ==
  SubSeq(text, i, i + 3) \o "-" \o SubSeq(text, second, second + 3)

\* the character class \w at the position; false outside the text
WordAt(text, i) ==
  /\ i >= 1 /\ i <= Len(text)
  /\ \/ IsDigit(CharAt(text, i))
     \/ Between(Ord(CharAt(text, i)), 65, 90)
     \/ Between(Ord(CharAt(text, i)), 97, 122)
     \/ CharAt(text, i) = "_"

\* \b(19[5-9]\d|20[0-4]\d|2050)\b matches at the position
year_word_at(text, i) ==
  /\ FourDigitsAt(text, i)
  /\ ~WordAt(text, i - 1)
  /\ ~WordAt(text, i + 4)
  /\ Between(IntOfStr(SubSeq(text, i, i + 3)), 1950, 2050)

\* "years[0] if len(years) == 1 else years[0]-years[-1]" of sorted(set(years))
year_span(ys) ==
  IF ys = {} THEN ""
  ELSE IF Cardinality(ys) = 1 THEN StrOfNat(MinOr(ys, 0))
  ELSE StrOfNat(MinOr(ys, 0)) \o "-" \o StrOfNat(MaxOr(ys, 0))

\* extract_years(text) of crawl.py, given the first match of the range pattern
crawl_extract_years_from(text, m) ==
  IF text = "" THEN ""
  ELSE IF m # 0
  THEN year_range_of(text, m, SkipSpaces(text, SkipSpaces(text, m + 4) + 1))
  ELSE year_span({IntOfStr(SubSeq(text, i, i + 3)) :
                    i \in {j \in 1..Len(text) : year_word_at(text, j)}})

crawl_extract_years(text) ==
  crawl_extract_years_from(text, MinOr({i \in 1..Len(text) : year_range_at(text, i)}, 0))

RECURSIVE str_remove(_, _)
\* s.replace(old, "")
str_remove(s, old) ==
  IF Find(s, old) = 0 THEN s
  ELSE Slice(s, 1, Find(s, old) - 1) \o str_remove(Slice(s, Find(s, old) + Len(old), Len(s)), old)

\* page_title(html): the title without the site's suffixes, else the h1
page_title(html) ==
  IF html.title # ""
  THEN Strip(str_remove(str_remove(str_remove(str_remove(Strip(html.title, " "),
         " on CDC WONDER"), " - CDC WONDER"), " Request"), " Request Form"), " ")
  ELSE Strip(html.h1, " ")

\* what one anchor contributes to extract_links
link_of(href, current_url) ==
  IF StartsWith(href, "#") \/ StartsWith(Lower(href), "javascript:") THEN <<>>
  ELSE IF crawl_is_wonder_html(normalize(href, current_url))
  THEN <<normalize(href, current_url)>>
  ELSE <<>>

\* extract_links(html, current_url)
extract_links(html, current_url) ==
  FlatMap(html.hrefs, LAMBDA h : link_of(Strip(h, " "), current_url))

\* a parsed HTML document: the text of its title and first h1, "" when it
\* has none, and the href of each anchor in document order
Page(title, h1, hrefs) == [title |-> title, h1 |-> h1, hrefs |-> hrefs]

HOME == BASE \o "/"

TOPICS == BASE \o "/welcomet.html"

ABOUT == BASE \o "/about.html"

MORT == BASE \o "/mortSQL.html"

CMF == BASE \o "/cmf-icd9-1979-1998.html"

FOREIGN == "https://www.cdc.gov/index.html"

\* a page the server does not have
MISSING == BASE \o "/missing.html"

\* fetch(url): the response when the status is 200 and the content is HTML,
\* None for any other status or content type and for a failed request
fetch(url) ==
  CASE url = HOME ->
         Some(Page("CDC WONDER", "",
                   <<"welcomet.html", "/about.html", "#top", "javascript:void(0)",
                     FOREIGN, "welcomet.html">>))
    [] url = TOPICS ->
         Some(Page("Topics - CDC WONDER", "",
                   <<"about.html", " mortSQL.html ", "cmf-icd9-1979-1998.html",
                     "controller/datarequest/D76", "">>))
    [] url = ABOUT ->
         Some(Page("", " About 1999 and 2020 ", <<"/", "missing.html", "welcomet.html">>))
    [] url = MORT ->
         Some(Page("Mortality 1999-2020 Request", "", <<"welcomet.html", "about.html">>))
    [] url = CMF ->
         Some(Page("Compressed Mortality, 1979 - 1998 Request Form", "", <<>>))
    [] OTHER -> None

\* results[link] as crawl fills it in
result_entry(link, title, url) ==
  [url        |-> link,
   page_name  |-> page_name_of(urlparse(link).path),
   title      |-> title,
   years      |-> IF crawl_extract_years(link) # "" THEN crawl_extract_years(link)
                  ELSE crawl_extract_years(title),
   source_url |-> url]

RECURSIVE handle_links(_, _, _, _, _, _, _)
\* the loop "for link in extract_links(resp.text, url)": a link not yet in
\* results gets its entry, and a link not yet fetched is put on the queue
\* while seen and queued pages together are fewer than max_pages
handle_links(links, title, url, seen, limit, res, q) ==
  IF links = <<>> THEN [results |-> res, queue |-> q]
  ELSE handle_links(Tail(links), title, url, seen, limit,
         IF \E i \in 1..Len(res) : res[i].url = Head(links) THEN res
         ELSE Append(res, result_entry(Head(links), title, url)),
         IF Head(links) \notin seen /\ Cardinality(seen) + Len(q) < limit
         THEN Append(q, Head(links)) ELSE q)

\* the URLs handle_links put on the queue
newly_queued(before, after) == SubSeq(after, Len(before) + 1, Len(after))

popleft_from_right(q) == [url |-> q[Len(q)], rest |-> SubSeq(q, 1, Len(q) - 1)]

\* queue.popleft(): the URL taken and the queue left
popleft(q) == [url |-> Head(q), rest |-> Tail(q)]

SeedUrls == {HOME, TOPICS, MORT, FOREIGN, MISSING}

CrawlInit ==
  /\ ScannerIdle
  /\ CatalogIdle
  /\ PureIdle
  /\ kpc = "loop"
  /\ seeds \in SeqsUpTo(SeedUrls, MaxSeeds)
  /\ max_pages \in 0..MaxPages
  /\ queue = seeds
  /\ seen_pages = {}
  /\ results = <<>>
  /\ enqueued = seeds
  /\ taken = <<>>
  /\ fetched = <<>>

\* "while queue and len(seen_pages) < max_pages"
loop_test == queue # <<>> /\ Cardinality(seen_pages) < max_pages

\* the URL taken was fetched before, or is of another host: continue
CrawlSkip ==
  /\ kpc = "loop"
  /\ loop_test
  /\ \/ popleft(queue).url \in seen_pages
     \/ Lower(urlparse(popleft(queue).url).netloc) # Lower(urlparse(BASE).netloc)
  /\ queue' = popleft(queue).rest
  /\ taken' = Append(taken, popleft(queue).url)
  /\ UNCHANGED <<kpc, seeds, max_pages, seen_pages, results, enqueued, fetched,
                 svars, cvars, pvars>>

\* the URL taken is fetched and fetch returns None: continue
CrawlFetchNone ==
  /\ kpc = "loop"
  /\ loop_test
  /\ popleft(queue).url \notin seen_pages
  /\ Lower(urlparse(popleft(queue).url).netloc) = Lower(urlparse(BASE).netloc)
  /\ fetch(popleft(queue).url) = None
  /\ queue' = popleft(queue).rest
  /\ taken' = Append(taken, popleft(queue).url)
  /\ fetched' = Append(fetched, popleft(queue).url)
  /\ seen_pages' = seen_pages \cup {popleft(queue).url}
  /\ UNCHANGED <<kpc, seeds, max_pages, results, enqueued, svars, cvars, pvars>>

\* the URL taken is fetched and its links are recorded and queued
CrawlFetchPage ==
  /\ kpc = "loop"
  /\ loop_test
  /\ popleft(queue).url \notin seen_pages
  /\ Lower(urlparse(popleft(queue).url).netloc) = Lower(urlparse(BASE).netloc)
  /\ fetch(popleft(queue).url) # None
  /\ \E after \in {handle_links(extract_links(fetch(popleft(queue).url)[1], popleft(queue).url),
                                page_title(fetch(popleft(queue).url)[1]),
                                popleft(queue).url,
                                seen_pages \cup {popleft(queue).url},
                                max_pages, results, popleft(queue).rest)} :
       /\ results' = after.results
       /\ queue' = after.queue
       /\ enqueued' = enqueued \o newly_queued(popleft(queue).rest, after.queue)
  /\ taken' = Append(taken, popleft(queue).url)
  /\ fetched' = Append(fetched, popleft(queue).url)
  /\ seen_pages' = seen_pages \cup {popleft(queue).url}
  /\ UNCHANGED <<kpc, seeds, max_pages, svars, cvars, pvars>>

\* the while test fails: crawl returns list(results.values())
CrawlReturn ==
  /\ kpc = "loop"
  /\ ~loop_test
  /\ kpc' = "done"
  /\ UNCHANGED <<seeds, max_pages, queue, seen_pages, results, enqueued, taken, fetched,
                 svars, cvars, pvars>>

CrawlNext ==
  \/ CrawlSkip
  \/ CrawlFetchNone
  \/ CrawlFetchPage
  \/ CrawlReturn

CrawlSpec == CrawlInit /\ [][CrawlNext]_vars

(***************************************************************************)
(* Properties of the discovery run (checked under Spec).                   *)
(***************************************************************************)
\* number of identifiers of the range start..end
RangeSize == end - start + 1

\* the probing loop of map_d_range has been left
LoopOver == pc \in {"open", "header", "rows", "close", "done"}

\* d is one of direct, redirect, error, http_<code>
IsDiscoveryKind(d) ==
  \/ d \in {"direct", "redirect", "error"}
  \/ /\ StartsWith(d, "http_")
     /\ Len(d) > 5
     /\ \A i \in 6..Len(d) : IsDigit(CharAt(d, i))

\* the discovery kind http_<code>
HttpKind(code) == "http_" \o StrOfNat(code)

\* C1: map_d_range(start, end) produces exactly one row for every identifier
\* D<n> with start <= n <= end, in order, none missing, duplicated or outside
\* the range, whatever each probe met, and every row's discovery kind is one
\* of direct, redirect, http_<code>, error; the rows written are those rows.
C1_OneRowPerIdentifier ==
  /\ Len(rows) <= RangeSize
  /\ \A k \in 1..Len(rows) :
       /\ rows[k].id = "D" \o StrOfNat(start + k - 1)
       /\ IsDiscoveryKind(rows[k].discovery)
  /\ LoopOver => Len(rows) = RangeSize
  /\ pc = "done" => /\ Len(store.rows) = RangeSize
                    /\ \A k \in 1..RangeSize :
                         /\ store.rows[k].id = "D" \o StrOfNat(start + k - 1)
                         /\ IsDiscoveryKind(store.rows[k].discovery)

\* a finished run over two identifiers whose probes failed and found nothing
C1_Witness ==
  /\ pc = "done"
  /\ RangeSize = 2
  /\ rows[1].discovery = "error"
  /\ rows[2].discovery = "http_404"

\* C5: a request that fails with a RequestException gives that identifier a
\* row of discovery kind error carrying the message, and the run still probes
\* every remaining identifier: once the loop is left, every identifier of the
\* range has been requested and has its row.
C5_FailureIsolated ==
  /\ \A k \in 1..Len(rows) :
       outcomes[k].kind = "exception" =>
         /\ rows[k].discovery = "error"
         /\ rows[k].http_status = "error"
         /\ rows[k].error = outcomes[k].msg
  /\ LoopOver => /\ requests = [k \in 1..RangeSize |-> ctrl_url(start + k - 1)]
                 /\ Len(rows) = RangeSize

\* a finished run whose first request failed and whose second got a response
C5_Witness ==
  /\ pc = "done"
  /\ RangeSize = 2
  /\ outcomes[1].kind = "exception"
  /\ rows[1].error = "Read timed out."
  /\ outcomes[2].kind = "response"

\* C6 as stated: every probe whose final response has a status other than 200
\* is recorded with the discovery kind http_<status code>.
C6_NonOkStatusHasOwnKind ==
  \A k \in 1..Len(rows) :
    (outcomes[k].kind = "response" /\ outcomes[k].r.status_code # 200) =>
      rows[k].discovery = HttpKind(outcomes[k].r.status_code)

\* C6 amended: a probe whose final response has a status other than 200 is
\* recorded as http_<status code> when no page was selected and as redirect
\* when a page was selected; either way the run goes on to the next identifier.
C6_NonOkStatusKind ==
  /\ \A k \in 1..Len(rows) :
       (outcomes[k].kind = "response" /\ outcomes[k].r.status_code # 200) =>
         /\ rows[k].http_status = StrOfNat(outcomes[k].r.status_code)
         /\ rows[k].final_url = "" => rows[k].discovery = HttpKind(outcomes[k].r.status_code)
         /\ rows[k].final_url # "" => rows[k].discovery = "redirect"
  /\ LoopOver => Len(requests) = RangeSize

\* a finished run with a 500 response that named a page and a 404 that did not
C6_Witness ==
  /\ pc = "done"
  /\ RangeSize = 2
  /\ rows[1].http_status = "500" /\ rows[1].discovery = "redirect"
  /\ rows[2].http_status = "404" /\ rows[2].discovery = "http_404"

\* C7 as stated: a resolved page that differs from the controller URL gives
\* redirect, one equal to it gives direct, no page gives http_<code>, a failed
\* request gives error.
C7_DiscoveryDerivation ==
  \A k \in 1..Len(rows) :
    /\ (rows[k].final_url # "" /\ rows[k].final_url # rows[k].controller_url) =>
         rows[k].discovery = "redirect"
    /\ (rows[k].final_url # "" /\ rows[k].final_url = rows[k].controller_url) =>
         rows[k].discovery = "direct"
    /\ (rows[k].final_url = "" /\ outcomes[k].kind = "response") =>
         rows[k].discovery = HttpKind(outcomes[k].r.status_code)
    /\ outcomes[k].kind = "exception" => rows[k].discovery = "error"

\* C7 amended: as stated, except that when no page was found the kind is
\* direct for status 200 and http_<code> for every other status.
C7_DiscoveryDerivationOk200 ==
  \A k \in 1..Len(rows) :
    /\ (rows[k].final_url # "" /\ rows[k].final_url # rows[k].controller_url) =>
         rows[k].discovery = "redirect"
    /\ (rows[k].final_url # "" /\ rows[k].final_url = rows[k].controller_url) =>
         rows[k].discovery = "direct"
    /\ (rows[k].final_url = "" /\ outcomes[k].kind = "response") =>
         rows[k].discovery = IF outcomes[k].r.status_code = 200 THEN "direct"
                             ELSE HttpKind(outcomes[k].r.status_code)
    /\ outcomes[k].kind = "exception" => rows[k].discovery = "error"

\* a 200 response without a page recorded as direct, next to a resolved page
C7_Witness ==
  /\ Len(rows) = 2
  /\ rows[1].final_url = "" /\ rows[1].http_status = "200" /\ rows[1].discovery = "direct"
  /\ rows[2].final_url # "" /\ rows[2].discovery = "redirect"

\* C8: at every point of a discovery run the dataset-map store holds none of
\* the rows or the rows of all identifiers of the range; a run terminated at
\* any point never leaves a store with only some of the rows.
C8_NoPartialStore ==
  \/ Len(store.rows) = 0
  \/ /\ Len(store.rows) = RangeSize
     /\ \A k \in 1..RangeSize : store.rows[k].id = "D" \o StrOfNat(start + k - 1)

\* C9: the delay follows every probe whatever its outcome: a request is only
\* issued when every earlier request has been followed by a completed delay,
\* and never more than one request is without its delay.
C9_DelayAfterEveryProbe ==
  /\ sleeps <= Len(requests)
  /\ Len(requests) <= sleeps + 1
  /\ pc = "request" => sleeps = Len(requests)
  /\ (pc = "append" \/ LoopOver) => sleeps = Len(requests)

\* the second request is about to be issued after a failed first one
C9_Witness ==
  /\ pc = "request"
  /\ Len(requests) = 1
  /\ outcomes[1].kind = "exception"
  /\ sleeps = 1

\* C10: no retries: no controller URL is requested twice in a run, and once
\* the loop is left the requests are exactly the controller URLs of the
\* range, one each, whatever each attempt met.
C10_OneAttemptPerIdentifier ==
  /\ \A i, j \in 1..Len(requests) : requests[i] = requests[j] => i = j
  /\ Len(requests) <= RangeSize
  /\ LoopOver => requests = [k \in 1..RangeSize |-> ctrl_url(start + k - 1)]

\* a finished run after a failed request and a 503
C10_Witness ==
  /\ pc = "done"
  /\ Len(requests) = 2
  /\ rows[1].discovery = "error"
  /\ rows[2].discovery = "http_503"

(***************************************************************************)
(* Properties of the classification pass (checked under CatalogSpec).      *)
(***************************************************************************)
\* the position in the table of the rule of the topic
rule_index(topic) ==
  CHOOSE i \in 1..Len(TOPIC_SEARCH_TERMS) : TOPIC_SEARCH_TERMS[i].topic = topic

\* some pattern of rule i of the table matches the slug
rule_matches(i, slug) ==
  \E k \in 1..Len(TOPIC_SEARCH_TERMS[i].patterns) :
    re_search(TOPIC_SEARCH_TERMS[i].patterns[k], slug)

\* the dataset is in the mappings list / the unmapped list
InMappings(d) ==
  \E i \in 1..Len(mappings) :
    /\ mappings[i].dataset_id = d.id
    /\ mappings[i].page_name = d.page_name
    /\ mappings[i].final_url = d.final_url

InUnmapped(d) ==
  \E i \in 1..Len(unmapped) :
    /\ unmapped[i].dataset_id = d.id
    /\ unmapped[i].page_name = d.page_name
    /\ unmapped[i].final_url = d.final_url

\* C2: every dataset the pass has considered is in exactly one of mappings
\* and unmapped, and the two lists together are as long as the number of
\* datasets considered; at the end that is all of them.
C2_ExactlyOneList ==
  /\ \A k \in 1..(di - 1) : InMappings(datasets[k]) # InUnmapped(datasets[k])
  /\ Len(mappings) + Len(unmapped) = di - 1
  /\ cpc = "classified" => Len(mappings) + Len(unmapped) = Len(datasets)

\* a finished pass with one mapped and one unmapped dataset
C2_Witness ==
  /\ cpc = "classified"
  /\ Len(datasets) = 2
  /\ Len(mappings) = 1
  /\ Len(unmapped) = 1

\* C3: the topic of a mapping is the topic of the first rule, in table order,
\* with a pattern that matches the lower-cased slug: that rule matches and no
\* earlier rule does, however many patterns of a later rule match; a dataset
\* is unmapped only when no rule matches.
C3_FirstMatchingRuleWins ==
  /\ \A m \in 1..Len(mappings) :
       LET slug == Lower(mappings[m].page_name)
           ti   == rule_index(mappings[m].topic)
       IN  /\ rule_matches(ti, slug)
           /\ \A j \in 1..(ti - 1) : ~rule_matches(j, slug)
  /\ \A u \in 1..Len(unmapped) :
       \A j \in 1..Len(TOPIC_SEARCH_TERMS) : ~rule_matches(j, Lower(unmapped[u].page_name))

\* a mapping whose rule has fewer matching patterns than a later rule
C3_Witness ==
  \E m \in 1..Len(mappings) :
    LET slug == Lower(mappings[m].page_name)
        ti   == rule_index(mappings[m].topic)
    IN  \E j \in (ti + 1)..Len(TOPIC_SEARCH_TERMS) :
          pattern_hits(TOPIC_SEARCH_TERMS[j], slug) > pattern_hits(TOPIC_SEARCH_TERMS[ti], slug)

\* the slug contains one of the markers
HasMarker(slug, markers) == \E w \in markers : Contains(slug, w)

MaternalChildMarkers == {"fetal", "lbd", "infant"}

MortalityMarkers == {"cmf", "ucd", "mcd", "mortality"}

\* C4: a considered dataset whose slug contains a maternal/child-health
\* marker and a mortality marker is mapped to Maternal & Child Health and
\* never to Mortality.
C4_MaternalChildBeforeMortality ==
  \A k \in 1..(di - 1) :
    LET d == datasets[k]
        slug == Lower(d.page_name)
    IN  (HasMarker(slug, MaternalChildMarkers) /\ HasMarker(slug, MortalityMarkers)) =>
          /\ \E i \in 1..Len(mappings) :
               /\ mappings[i].dataset_id = d.id
               /\ mappings[i].page_name = d.page_name
               /\ mappings[i].topic = "Maternal & Child Health"
          /\ ~\E i \in 1..Len(mappings) :
               /\ mappings[i].dataset_id = d.id
               /\ mappings[i].page_name = d.page_name
               /\ mappings[i].topic = "Mortality"

\* a slug with "fetal" and "mortality" was mapped to Maternal & Child Health
C4_Witness ==
  \E i \in 1..Len(mappings) :
    /\ Contains(mappings[i].page_name, "fetal")
    /\ Contains(mappings[i].page_name, "mortality")
    /\ mappings[i].topic = "Maternal & Child Health"

(***************************************************************************)
(* Properties of the selector and of the canonical-page filter             *)
(* (SelectorSpec).                                                         *)
(***************************************************************************)
\* a candidate the block-list removes: a block-list entry occurs in its
\* lower-cased text
Blocked(u) == \E p \in {"faq.html", "main.html"} : Contains(Lower(u), p)

\* the candidates of the call that the block-list leaves
Kept == {u \in Range(sel_urls) : ~Blocked(u)}

\* C11 as stated: no block-listed candidate is selected, and when no
\* candidate is left the selection is the fallback value and never empty.
C11_FallbackNeverEmpty ==
  sel_chosen # None =>
    /\ Kept # {} => sel_chosen[1] \in Kept
    /\ Kept = {} => /\ sel_fallback # None
                    /\ sel_chosen[1] = sel_fallback[1]
                    /\ sel_chosen[1] # ""

\* C11: pick_best_html never selects a block-listed candidate; when the
\* candidate list is empty or the block-list leaves no candidate it returns
\* the fallback if one was given and the empty string if none was given.
C11_FallbackOrEmpty ==
  sel_chosen # None =>
    /\ Kept # {} => sel_chosen[1] \in Kept
    /\ (Kept = {} /\ sel_fallback # None) => sel_chosen[1] = sel_fallback[1]
    /\ (Kept = {} /\ sel_fallback = None) => sel_chosen[1] = ""

\* every candidate of a non-empty list was block-listed and the fallback
\* was returned
C11_Witness ==
  /\ sel_chosen # None
  /\ sel_urls # <<>>
  /\ Kept = {}
  /\ sel_fallback # None
  /\ sel_chosen[1] = sel_fallback[1]

\* the rank of a candidate: keyword hits in its lower-cased path, path length
RankOfPath(path, u) ==
  [hits |-> Cardinality({w \in Range(priority_words) : Contains(Lower(path), w)}),
   len |-> Len(path), u |-> u]

RankOf(u) == RankOfPath(urlparse(u).path, u)

\* rank a comes strictly before rank b
Before(a, b) ==
  \/ a.hits > b.hits
  \/ a.hits = b.hits /\ a.len < b.len
  \/ a.hits = b.hits /\ a.len = b.len /\ StrLess(a.u, b.u)

FirstUnder(r, S) == \A o \in S : o = r.u \/ Before(r, RankOf(o))

Reverse(xs) == [i \in 1..Len(xs) |-> xs[Len(xs) + 1 - i]]

\* C12: among the candidates the block-list leaves, the selection is the
\* one first under (more keyword hits, shorter path, smaller URL); listing
\* the candidates in the opposite order gives the same selection.
C12_FirstUnderTotalOrder ==
  sel_chosen # None =>
    /\ Kept # {} => /\ sel_chosen[1] \in Kept
                    /\ FirstUnder(RankOf(sel_chosen[1]), Kept)
    /\ pick_best_html(Reverse(sel_urls), sel_fallback) = sel_chosen[1]

\* two listed candidates tie on hits and length, and the selection is the
\* lexicographically smaller one although it is listed later
C12_Witness ==
  /\ sel_chosen # None
  /\ Len(sel_urls) >= 2
  /\ sel_urls[1] \in Kept
  /\ sel_chosen[1] = sel_urls[2]
  /\ RankOf(sel_urls[1]).hits = RankOf(sel_urls[2]).hits
  /\ RankOf(sel_urls[1]).len = RankOf(sel_urls[2]).len

\* absolute URL, host equal to the service host, path ending in ".html"
CanonicalParts(p) ==
  /\ p.scheme # ""
  /\ p.netloc # ""
  /\ Lower(p.netloc) = "wonder.cdc.gov"
  /\ EndsWith(Lower(p.path), ".html")

IsCanonicalPage(u) == CanonicalParts(urlparse(u))

\* C13: filtering the filtered list again changes nothing, and the filtered
\* list holds exactly the canonical pages of the input.
C13_FilterIdempotent ==
  sel_filtered # None =>
    /\ keep_wonder_html(sel_filtered[1]) = sel_filtered[1]
    /\ Range(sel_filtered[1]) = {u \in Range(sel_urls) : IsCanonicalPage(u)}

\* the filter kept a page and dropped a URL
C13_Witness ==
  /\ sel_filtered # None
  /\ sel_filtered[1] # <<>>
  /\ Range(sel_filtered[1]) # Range(sel_urls)

(***************************************************************************)
(* Properties of the records a classification pass builds (CatalogSpec).   *)
(***************************************************************************)
\* the categories under which the taxonomy of the run lists the topic name
CategoriesOf(topic) ==
  {topics.health[c].category : c \in {k \in 1..Len(topics.health) :
      \E t \in 1..Len(topics.health[k].topics) : topics.health[k].topics[t].name = topic}}

\* some rule of the table matches the lower-cased slug of the dataset
SomeRuleMatches(d) ==
  \E j \in 1..Len(TOPIC_SEARCH_TERMS) : rule_matches(j, Lower(d.page_name))

\* C14: the category of a mapping is a category the taxonomy lists for its
\* topic, and the sentinel "Unknown" when the taxonomy does not list the
\* topic; a considered dataset that a rule matches is in mappings and not in
\* unmapped whether or not the taxonomy lists the topic.
C14_UnknownCategoryStillMapped ==
  /\ \A m \in 1..Len(mappings) :
       IF CategoriesOf(mappings[m].topic) = {}
       THEN mappings[m].category = "Unknown"
       ELSE mappings[m].category \in CategoriesOf(mappings[m].topic)
  /\ \A k \in 1..(di - 1) :
       SomeRuleMatches(datasets[k]) => InMappings(datasets[k]) /\ ~InUnmapped(datasets[k])

\* a finished pass mapped a dataset to a topic the taxonomy does not list
C14_Witness ==
  /\ cpc = "classified"
  /\ \E m \in 1..Len(mappings) :
       /\ CategoriesOf(mappings[m].topic) = {}
       /\ mappings[m].category = "Unknown"

\* C15: the rationale of a mapping is the template of the rule of its topic
\* with the identifier and the slug of the row put in, so it contains both
\* as given; a considered row D176 / ucd-icd10.html is mapped to Mortality
\* with a rationale containing "D176" and "ucd-icd10.html".
C15_RationaleNamesIdAndSlug ==
  /\ \A m \in 1..Len(mappings) :
       LET t == TOPIC_SEARCH_TERMS[rule_index(mappings[m].topic)].reason_template
       IN  /\ mappings[m].reason =
                t.pre \o mappings[m].dataset_id \o t.mid \o mappings[m].page_name \o t.post
           /\ Contains(mappings[m].reason, mappings[m].dataset_id)
           /\ Contains(mappings[m].reason, mappings[m].page_name)
  /\ \A k \in 1..(di - 1) :
       (datasets[k].id = "D176" /\ datasets[k].page_name = "ucd-icd10.html"
          /\ datasets[k].discovery = "redirect") =>
         \E m \in 1..Len(mappings) :
           /\ mappings[m].dataset_id = "D176"
           /\ mappings[m].topic = "Mortality"
           /\ Contains(mappings[m].reason, "D176")
           /\ Contains(mappings[m].reason, "ucd-icd10.html")

\* a finished pass mapped D176 to Mortality and a slug with capital letters
\* to some topic
C15_Witness ==
  /\ cpc = "classified"
  /\ \E m \in 1..Len(mappings) :
       mappings[m].dataset_id = "D176" /\ mappings[m].topic = "Mortality"
  /\ \E m \in 1..Len(mappings) : Lower(mappings[m].page_name) # mappings[m].page_name

\* the rationale recommends extending the rule table
Recommends(reason) == Contains(reason, "Consider adding a new pattern to TOPIC_SEARCH_TERMS")

\* C16: a considered dataset no rule matches has an entry in unmapped with
\* its identifier, slug and URL and a rationale that names them and
\* recommends extending the rule table, and it is not in mappings; so is a
\* considered row D999 / unknown-page.html.
C16_UnmatchedIsUnmapped ==
  /\ \A k \in 1..(di - 1) :
       ~SomeRuleMatches(datasets[k]) =>
         /\ ~InMappings(datasets[k])
         /\ \E u \in 1..Len(unmapped) :
              /\ unmapped[u].dataset_id = datasets[k].id
              /\ unmapped[u].page_name = datasets[k].page_name
              /\ unmapped[u].final_url = datasets[k].final_url
              /\ Recommends(unmapped[u].reason)
              /\ Contains(unmapped[u].reason, datasets[k].id)
  /\ \A k \in 1..(di - 1) :
       (datasets[k].id = "D999" /\ datasets[k].page_name = "unknown-page.html") =>
         InUnmapped(datasets[k]) /\ ~InMappings(datasets[k])

\* a finished pass recorded D999 / unknown-page.html as unmapped
C16_Witness ==
  /\ cpc = "classified"
  /\ \E u \in 1..Len(unmapped) :
       /\ unmapped[u].dataset_id = "D999"
       /\ unmapped[u].page_name = "unknown-page.html"
       /\ Recommends(unmapped[u].reason)

(***************************************************************************)
(* Properties of extract_years (YearsSpec).                                *)
(***************************************************************************)
\* position i of the text holds no digit (or lies outside the text)
NoDigitAt(text, i) == i < 1 \/ i > Len(text) \/ ~IsDigit(CharAt(text, i))

\* the runs of exactly four digits of the text: four digits with no digit
\* right before and none right after
ExactRuns(text) ==
  {SubSeq(text, s, s + 3) : s \in {p \in 1..(Len(text) - 3) :
      /\ \A i \in p..(p + 3) : ~NoDigitAt(text, i)
      /\ NoDigitAt(text, p - 1)
      /\ NoDigitAt(text, p + 4)}}

InWindow(y) == 1900 <= IntOfStr(y) /\ IntOfStr(y) <= 2500

\* '' for no year, the year for one, '<first>-<last>' for more
YearSpan(S) ==
  IF S = {} THEN ""
  ELSE IF Cardinality(S) = 1 THEN CHOOSE y \in S : TRUE
  ELSE (CHOOSE y \in S : \A z \in S : IntOfStr(y) <= IntOfStr(z)) \o "-"
       \o (CHOOSE y \in S : \A z \in S : IntOfStr(y) >= IntOfStr(z))

\* C18: extract_years(text) is the span of the runs of exactly four digits
\* of the text that lie in the calendar window; digit runs of any other
\* length contribute nothing.
C18_ExactFourDigitRuns ==
  yr_result # None =>
    yr_result[1] = YearSpan({y \in ExactRuns(yr_text) : InWindow(y)})

(***************************************************************************)
(* Properties of main: writing, running again, unreadable inputs           *)
(* (MainSpec).                                                             *)
(***************************************************************************)
\* C17: a run that completes after an earlier completed run on the same
\* dataset map and taxonomy returns the same mappings and unmapped lists
\* and writes the same record as that earlier run.
C17_RerunSameOutput ==
  (cpc = "written" /\ prev_run # None) =>
    /\ mappings = prev_run[1].mappings
    /\ unmapped = prev_run[1].unmapped
    /\ out_file = Some(prev_run[1].out)
    /\ out_file[1].total_mapped = prev_run[1].out.total_mapped
    /\ out_file[1].total_unmapped = prev_run[1].out.total_unmapped

\* a second run completed with a mapped and an unmapped dataset
C17_Witness ==
  /\ cpc = "written"
  /\ prev_run # None
  /\ runs >= 2
  /\ mappings # <<>>
  /\ unmapped # <<>>

\* the identifier is D followed by digits and nothing else
IsDThenDigits(id) ==
  /\ StartsWith(id, "D")
  /\ Len(id) >= 2
  /\ \A i \in 2..Len(id) : IsDigit(CharAt(id, i))

\* the ordinal as stated: the number of D<digits>, 0 for any other identifier
StatedOrdinal(id) == IF IsDThenDigits(id) THEN IntOfStr(SubSeq(id, 2, Len(id))) ELSE 0

\* the number of digits right behind the first character of the identifier
DigitsBehindFirst(id) == MaxOr({k \in 0..(Len(id) - 1) : \A i \in 2..(k + 1) : IsDigit(CharAt(id, i))}, 0)

\* the ordinal of an identifier that begins with D and a digit: the number
\* the digits right behind the D spell, whatever follows them; 0 otherwise
PrefixOrdinalOf(id, k) ==
  IF StartsWith(id, "D") /\ k >= 1 THEN IntOfStr(SubSeq(id, 2, k + 1)) ELSE 0

PrefixOrdinal(id) == PrefixOrdinalOf(id, DigitsBehindFirst(id))

\* the two lists hold the same entries the same number of times
SameMembers(a, b) ==
  \A x \in Range(a) \cup Range(b) :
    Cardinality({i \in 1..Len(a) : a[i] = x}) = Cardinality({i \in 1..Len(b) : b[i] = x})

\* the counts of the written record are the lengths of its lists, and its
\* lists hold exactly the datasets the run passed to write_topics_mapping
CountsAndMembers(o) ==
  /\ DOMAIN o = {"description", "generated_by", "total_mapped", "total_unmapped",
                 "mappings", "unmapped"}
  /\ o.total_mapped = Len(o.mappings)
  /\ o.total_unmapped = Len(o.unmapped)
  /\ SameMembers(o.mappings, mappings)
  /\ SameMembers(o.unmapped, unmapped)

\* C19 as stated: the written lists are sorted ascending by the ordinal,
\* where every identifier that is not D<digits> has ordinal 0; counts and
\* members are those of the lists passed in.
C19_SortedByStatedOrdinal ==
  cpc = "written" =>
    /\ CountsAndMembers(out_file[1])
    /\ \A i \in 1..(Len(out_file[1].mappings) - 1) :
         StatedOrdinal(out_file[1].mappings[i].dataset_id)
           <= StatedOrdinal(out_file[1].mappings[i + 1].dataset_id)
    /\ \A i \in 1..(Len(out_file[1].unmapped) - 1) :
         StatedOrdinal(out_file[1].unmapped[i].dataset_id)
           <= StatedOrdinal(out_file[1].unmapped[i + 1].dataset_id)

\* C19: the written lists are sorted ascending by the number spelled by the
\* digits right behind a leading D (0 for an identifier that does not begin
\* with D and a digit); counts and members are those of the lists passed in.
C19_SortedByPrefixOrdinal ==
  cpc = "written" =>
    /\ CountsAndMembers(out_file[1])
    /\ \A i \in 1..(Len(out_file[1].mappings) - 1) :
         PrefixOrdinal(out_file[1].mappings[i].dataset_id)
           <= PrefixOrdinal(out_file[1].mappings[i + 1].dataset_id)
    /\ \A i \in 1..(Len(out_file[1].unmapped) - 1) :
         PrefixOrdinal(out_file[1].unmapped[i].dataset_id)
           <= PrefixOrdinal(out_file[1].unmapped[i + 1].dataset_id)

\* the writer reordered the mappings, among them an identifier with text
\* behind its digits
C19_Witness ==
  /\ cpc = "written"
  /\ out_file[1].mappings # mappings
  /\ \E i \in 1..Len(mappings) :
       StatedOrdinal(mappings[i].dataset_id) # PrefixOrdinal(mappings[i].dataset_id)

\* topics_mapping.json as it was when the run started
StoreBeforeRun == IF prev_run = None THEN None ELSE Some(prev_run[1].out)

\* C20: a run whose dataset map or taxonomy is missing or undecodable never
\* classifies or writes: it is loading or has failed, and topics_mapping.json
\* is as it was when the run started (absent in a first run).
C20_BadInputWritesNothing ==
  fault # "none" =>
    /\ cpc \in {"load", "failed"}
    /\ out_file = StoreBeforeRun

\* a run failed on its input while topics_mapping.json of an earlier run exists
C20_Witness ==
  /\ cpc = "failed"
  /\ fault # "none"
  /\ prev_run # None
  /\ out_file # None

(***************************************************************************)
(* Properties of the rows and of the candidate list of probe_d_id (Spec).  *)
(***************************************************************************)
\* the position of the first occurrence of u in the list
FirstIndex(xs, u) == MinOr({i \in 1..Len(xs) : xs[i] = u}, 0)

\* the targets of the sources of a response in the order probe_d_id visits
\* them: redirect hops, the Location of the final response, the final URL
\* when it is a static page, then the body: meta refresh, scripts, anchors
SourceTargets(r) ==
  FlatMap(r.history, location_target) \o location_target(r) \o self_target(r.url)
    \o (IF Contains(r.content_type, "text/html") /\ r.text # None
        THEN FlatMap(mined_targets(r.text[1]), LAMBDA t : <<urljoin(r.url, t)>>)
        ELSE <<>>)

\* cs lists the canonical pages of raw, each once, in first-seen order
FirstSeenCanonical(cs, raw) ==
  /\ \A i \in 1..Len(cs) : IsCanonicalPage(cs[i])
  /\ \A i, j \in 1..Len(cs) : cs[i] = cs[j] => i = j
  /\ Range(cs) = {u \in Range(raw) : IsCanonicalPage(u)}
  /\ \A i, j \in 1..Len(cs) : i < j => FirstIndex(raw, cs[i]) < FirstIndex(raw, cs[j])

\* C24: the candidate list probe_d_id hands to the selector for the response
\* it met holds only canonical pages, none twice, in the first-seen order of
\* the sources.
C24_CandidatesFirstSeen ==
  (outcomes # <<>> /\ outcomes[Len(outcomes)].kind = "response") =>
    FirstSeenCanonical(probe_candidates(outcomes[Len(outcomes)].r),
                       SourceTargets(outcomes[Len(outcomes)].r))

\* the sources of the last response name a page twice and a URL that is not
\* a canonical page, and two or more candidates are handed over
C24_Witness ==
  /\ outcomes # <<>>
  /\ outcomes[Len(outcomes)].kind = "response"
  /\ Len(probe_candidates(outcomes[Len(outcomes)].r)) >= 2
  /\ Len(SourceTargets(outcomes[Len(outcomes)].r))
       > Cardinality(Range(SourceTargets(outcomes[Len(outcomes)].r)))
  /\ \E u \in Range(SourceTargets(outcomes[Len(outcomes)].r)) : ~IsCanonicalPage(u)

\* the text behind the last "/" of the path
LastSegment(path) ==
  SubSeq(path, MaxOr({i \in 1..Len(path) : CharAt(path, i) = "/"}, 0) + 1, Len(path))

\* C26: in every row final_url and page_name are both empty or both
\* non-empty; when non-empty, final_url is a canonical page, page_name is
\* the last segment of its path and years is extract_years(page_name); when
\* empty, years is empty.
C26_ResolvedFieldsTogether ==
  \A k \in 1..Len(rows) :
    /\ (rows[k].final_url = "") = (rows[k].page_name = "")
    /\ rows[k].final_url # "" =>
         /\ IsCanonicalPage(rows[k].final_url)
         /\ rows[k].page_name = LastSegment(urlparse(rows[k].final_url).path)
         /\ rows[k].years = extract_years(rows[k].page_name)
    /\ rows[k].final_url = "" => rows[k].years = ""

\* a row with a resolved page and a year range next to a row without a page
C26_Witness ==
  /\ Len(rows) = 2
  /\ rows[1].final_url # "" /\ rows[1].years = "1979-1998"
  /\ rows[2].final_url = "" /\ rows[2].page_name = ""

\* C27: a row of discovery kind direct has no final_url and http_status 200;
\* a row with a final_url has discovery kind redirect; the controller URL of
\* a row is never a canonical page.
C27_DirectMeansUnresolved ==
  \A k \in 1..Len(rows) :
    /\ rows[k].discovery = "direct" => (rows[k].final_url = "" /\ rows[k].http_status = "200")
    /\ rows[k].final_url # "" => rows[k].discovery = "redirect"
    /\ ~IsCanonicalPage(rows[k].controller_url)
    /\ rows[k].final_url # rows[k].controller_url

\* a finished run with a resolved page first and a direct row second
C27_Witness ==
  /\ pc = "done"
  /\ Len(rows) = 2
  /\ rows[1].final_url # "" /\ rows[1].discovery = "redirect"
  /\ rows[2].discovery = "direct" /\ rows[2].http_status = "200"

\* C28: a row has discovery kind error exactly when its http_status is
\* error, and then final_url, page_name and years are empty.
C28_ErrorRowIsEmpty ==
  \A k \in 1..Len(rows) :
    /\ (rows[k].discovery = "error") = (rows[k].http_status = "error")
    /\ rows[k].discovery = "error" =>
         /\ rows[k].final_url = ""
         /\ rows[k].page_name = ""
         /\ rows[k].years = ""
         /\ outcomes[k].kind = "exception"

\* a failed probe right after a probe that resolved a page
C28_Witness ==
  /\ Len(rows) = 2
  /\ rows[1].final_url # "" /\ rows[1].page_name # ""
  /\ rows[2].discovery = "error" /\ rows[2].http_status = "error"

(***************************************************************************)
(* Where the selection of pick_best_html comes from (SelectorSpec).        *)
(***************************************************************************)
\* the values pick_best_html may return for the call: a candidate the
\* block-list leaves, the fallback value, or the empty string
Returnable == Kept \cup {sel_fallback[i] : i \in 1..Len(sel_fallback)} \cup {""}

\* C29: the result of pick_best_html is a candidate that does not match the
\* block-list, the fallback value or the empty string; a block-listed
\* candidate is returned only as the fallback when no candidate is left, and
\* a URL that is neither a candidate nor the fallback is never returned.
C29_ResultFromKeptOrFallback ==
  sel_chosen # None =>
    /\ sel_chosen[1] \in Returnable
    /\ sel_chosen[1] \in Range(sel_urls) \cup Range(sel_fallback) \cup {""}
    /\ Blocked(sel_chosen[1]) => (Kept = {} /\ sel_fallback = Some(sel_chosen[1]))

\* a block-listed candidate ranks before the candidate that was returned
C29_Witness ==
  /\ sel_chosen # None
  /\ sel_chosen[1] \in Kept
  /\ \E u \in Range(sel_urls) :
       /\ Blocked(u)
       /\ key_less(score_key(u), score_key(sel_chosen[1]))

(***************************************************************************)
(* The last rule of the table and the rows a pass considers (CatalogSpec). *)
(***************************************************************************)
\* the topics of the rules that stand before the Mortality rule
SpecificTopics ==
  {"Maternal & Child Health", "Population Estimates", "Birth & Natality", "Cancer",
   "Infectious Diseases", "Vaccinations & Immunizations", "Environmental Health",
   "Notifiable Conditions"}

\* a pattern of a rule other than the Mortality rule matches the slug
SpecificRuleMatches(slug) ==
  \E i \in 1..Len(TOPIC_SEARCH_TERMS) :
    TOPIC_SEARCH_TERMS[i].topic # "Mortality" /\ rule_matches(i, slug)

\* C22: the Mortality rule is the last rule of the table, after the eight
\* specific rules; a mapping has topic Mortality only when no pattern of any
\* other rule matches its slug, and a considered dataset whose slug matches
\* a pattern of another rule is never mapped to Mortality.
C22_MortalityOnlyAsLastResort ==
  /\ TOPIC_SEARCH_TERMS[Len(TOPIC_SEARCH_TERMS)].topic = "Mortality"
  /\ {TOPIC_SEARCH_TERMS[i].topic : i \in 1..(Len(TOPIC_SEARCH_TERMS) - 1)} = SpecificTopics
  /\ \A m \in 1..Len(mappings) :
       mappings[m].topic = "Mortality" => ~SpecificRuleMatches(Lower(mappings[m].page_name))
  /\ \A k \in 1..(di - 1) :
       SpecificRuleMatches(Lower(datasets[k].page_name)) =>
         \A m \in 1..Len(mappings) :
           (mappings[m].dataset_id = datasets[k].id
              /\ mappings[m].page_name = datasets[k].page_name)
             => mappings[m].topic # "Mortality"

\* a finished pass mapped one slug with a mortality marker to Mortality and
\* another, which also matches a specific rule, to that rule's topic
C22_Witness ==
  /\ cpc = "classified"
  /\ \E m \in 1..Len(mappings) : mappings[m].topic = "Mortality"
  /\ \E m \in 1..Len(mappings) :
       /\ mappings[m].topic \in SpecificTopics
       /\ HasMarker(Lower(mappings[m].page_name), MortalityMarkers)

\* the row is in the mappings list / the unmapped list under its identifier
\* and page_name
RowMapped(r) ==
  \E i \in 1..Len(mappings) :
    mappings[i].dataset_id = r.id /\ mappings[i].page_name = r.page_name

RowUnmapped(r) ==
  \E i \in 1..Len(unmapped) :
    unmapped[i].dataset_id = r.id /\ unmapped[i].page_name = r.page_name

\* C23: a finished pass has in its output, mapped or unmapped, each row of
\* the dataset map with discovery kind redirect and a non-empty page_name,
\* and no other row; the two lists are together as long as the number of
\* such rows.
C23_ConsidersResolvedRowsOnly ==
  cpc = "classified" =>
    /\ \A k \in 1..Len(dataset_map) :
         (RowMapped(dataset_map[k]) \/ RowUnmapped(dataset_map[k]))
           = (dataset_map[k].discovery = "redirect" /\ dataset_map[k].page_name # "")
    /\ Len(mappings) + Len(unmapped)
         = Cardinality({k \in 1..Len(dataset_map) :
             dataset_map[k].discovery = "redirect" /\ dataset_map[k].page_name # ""})

\* a finished pass over a map with a resolved row next to a row that names
\* a page without a redirect
C23_Witness ==
  /\ cpc = "classified"
  /\ Len(mappings) + Len(unmapped) = 1
  /\ \E k \in 1..Len(dataset_map) :
       dataset_map[k].page_name # "" /\ dataset_map[k].discovery = "direct"

(***************************************************************************)
(* Letter case of the slug (CatalogSpec).                                  *)
(***************************************************************************)
\* the topic and category the pass gave the dataset: empty when unmapped
VerdictOf(d) ==
  {<<mappings[i].topic, mappings[i].category>> :
     i \in {m \in 1..Len(mappings) :
              mappings[m].dataset_id = d.id /\ mappings[m].page_name = d.page_name}}

\* C25: two considered datasets whose page_name differ only in the case of
\* letters have the same topic and category or are both unmapped; every
\* mapping carries the page_name of its dataset as it was loaded, and its
\* rationale contains that page_name in its original case.
C25_TopicIgnoresLetterCase ==
  /\ \A j, k \in 1..(di - 1) :
       Lower(datasets[j].page_name) = Lower(datasets[k].page_name) =>
         /\ VerdictOf(datasets[j]) = VerdictOf(datasets[k])
         /\ InUnmapped(datasets[j]) = InUnmapped(datasets[k])
  /\ \A m \in 1..Len(mappings) :
       /\ \E k \in 1..(di - 1) :
            /\ datasets[k].id = mappings[m].dataset_id
            /\ datasets[k].page_name = mappings[m].page_name
       /\ Contains(mappings[m].reason, "page name '" \o mappings[m].page_name \o "'")

\* a finished pass mapped two slugs that differ only in letter case, and the
\* rationale of the one with capital letters spells it with them
C25_Witness ==
  /\ cpc = "classified"
  /\ Len(mappings) = 2
  /\ mappings[1].page_name # mappings[2].page_name
  /\ Lower(mappings[1].page_name) = Lower(mappings[2].page_name)
  /\ mappings[1].topic = mappings[2].topic
  /\ \E m \in 1..2 :
       /\ Lower(mappings[m].page_name) # mappings[m].page_name
       /\ ~Contains(mappings[m].reason, Lower(mappings[m].page_name))

(***************************************************************************)
(* The grouped report of print_datasets_by_topic (MainSpec).               *)
(***************************************************************************)
\* the sections of the report that list the mapping
SectionsListing(m) ==
  {i \in 1..Len(report[1].sections) : m \in Range(report[1].sections[i].datasets)}

\* C21: the grouped report lists the topics in ascending order of their
\* names; the section of a topic lists exactly the mapped datasets of that
\* topic, sorted ascending by the ordinal of their identifiers; every mapped
\* dataset is listed under exactly one topic, and no topic without datasets
\* is listed.
C21_ReportGroupedAndSorted ==
  cpc = "reported" =>
    /\ \A i, j \in 1..Len(report[1].sections) :
         i < j => StrLess(report[1].sections[i].topic, report[1].sections[j].topic)
    /\ \A i \in 1..Len(report[1].sections) :
         LET sec == report[1].sections[i]
         IN  /\ sec.datasets # <<>>
             /\ SameMembers(sec.datasets, SelectSeq(mappings, LAMBDA m : m.topic = sec.topic))
             /\ \A k \in 1..(Len(sec.datasets) - 1) :
                  PrefixOrdinal(sec.datasets[k].dataset_id)
                    <= PrefixOrdinal(sec.datasets[k + 1].dataset_id)
             /\ Len(sec.lines) = Len(sec.datasets)
             /\ \A k \in 1..Len(sec.datasets) :
                  /\ Contains(sec.lines[k], sec.datasets[k].dataset_id)
                  /\ Contains(sec.lines[k], sec.datasets[k].page_name)
    /\ \A m \in 1..Len(mappings) : Cardinality(SectionsListing(mappings[m])) = 1

\* a report of two topics that stand in the file in the other order
C21_Witness ==
  /\ cpc = "reported"
  /\ Len(report[1].sections) = 2
  /\ report[1].sections[1].topic # out_file[1].mappings[1].topic
  /\ report[1].sections[1].datasets # <<>>
  /\ report[1].sections[2].datasets # <<>>

(***************************************************************************)
(* The traversal of crawl (CrawlSpec).                                     *)
(***************************************************************************)
\* C30: crawl takes the URLs from the queue in first-in-first-out order,
\* starting with the seeds: what was taken so far and what is still queued
\* is, in this order, what was put on the queue; no URL is fetched twice;
\* never more than max_pages pages are fetched; and once the queue is empty
\* or max_pages pages have been seen, nothing more is taken and crawl
\* returns.
C30_FifoBoundedCrawl ==
  /\ enqueued = taken \o queue
  /\ SubSeq(enqueued, 1, Len(seeds)) = seeds
  /\ \A i, j \in 1..Len(fetched) : fetched[i] = fetched[j] => i = j
  /\ Range(fetched) = seen_pages
  /\ Len(fetched) <= max_pages
  /\ kpc = "done" => (queue = <<>> \/ Cardinality(seen_pages) >= max_pages)
  /\ (kpc = "loop" /\ (queue = <<>> \/ Cardinality(seen_pages) >= max_pages)) =>
       /\ ~ENABLED (CrawlSkip \/ CrawlFetchNone \/ CrawlFetchPage)
       /\ ENABLED CrawlReturn

\* crawl returned after it fetched max_pages pages, one of them a link that
\* was queued behind a seed, and after it skipped a URL it took
C30_Witness ==
  /\ kpc = "done"
  /\ max_pages >= 2
  /\ Len(fetched) = max_pages
  /\ Len(taken) > Len(fetched)
  /\ \E i \in 1..Len(fetched) : fetched[i] \notin Range(seeds)

====
